---- MODULE Spec2Model ----
(***************************************************************************)
(* Verification model of the SLO analytics core: the DuckDB metric store   *)
(* (src/data/database/duckdb_manager.py) and the analytic operations that  *)
(* read it (src/analytics/*.py).                                           *)
(*                                                                         *)
(* Representation.                                                         *)
(*  - A table is the set of its rows; a row is a record of its columns.    *)
(*  - A DataFrame handed to an insert is the sequence of its rows.         *)
(*  - A DOUBLE value is an exact rational <<n, d>> with d > 0; the SQL     *)
(*    NULL of a numeric column, which pandas reads back as NaN, is         *)
(*    <<0, 0>>.  Arithmetic is exact; comparisons with NaN are FALSE as in *)
(*    IEEE-754.                                                            *)
(*  - A timestamp is the integer number of minutes since the epoch; the    *)
(*    raw record_time of a DataFrame row is either such an instant or the  *)
(*    value BadTime, which pandas.to_datetime(errors='coerce') turns into  *)
(*    NaT.                                                                 *)
(*  - A VARCHAR value is a string; its NULL is the string NULL.            *)
(***************************************************************************)
EXTENDS Integers, Sequences, FiniteSets, TLC

VARIABLES
    service_logs,   \* rows of table service_logs
    error_logs,     \* rows of table error_logs
    ret             \* the last call: its operation, arguments and outcome

vars == <<service_logs, error_logs, ret>>

NULL == "NULL"

(***************************************************************************)
(* Exact rationals with NaN.                                               *)
(***************************************************************************)
NaN == <<0, 0>>

IsNaN(x) == x[2] = 0

NotNa(x) == x[2] # 0

Abs(n) == IF n < 0 THEN 0 - n ELSE n

RECURSIVE Gcd(_, _)
Gcd(a, b) == IF b = 0 THEN a ELSE Gcd(b, a % b)

\* the rational n/d (d # 0) in lowest terms with a positive denominator
Rat(n, d) ==
    LET g == Gcd(Abs(n), Abs(d))
        s == IF d < 0 THEN 0 - 1 ELSE 1
    IN  <<(s * n) \div g, (s * d) \div g>>

R(n) == <<n, 1>>

RAdd(a, b) == IF IsNaN(a) \/ IsNaN(b) THEN NaN
              ELSE Rat(a[1] * b[2] + b[1] * a[2], a[2] * b[2])

RSub(a, b) == IF IsNaN(a) \/ IsNaN(b) THEN NaN
              ELSE Rat(a[1] * b[2] - b[1] * a[2], a[2] * b[2])

RMul(a, b) == IF IsNaN(a) \/ IsNaN(b) THEN NaN
              ELSE Rat(a[1] * b[1], a[2] * b[2])

\* a / b for b # 0 (every division of the code is guarded or has b # 0)
RDiv(a, b) == IF IsNaN(a) \/ IsNaN(b) THEN NaN
              ELSE Rat(a[1] * b[2], a[2] * b[1])

RLt(a, b) == NotNa(a) /\ NotNa(b) /\ a[1] * b[2] < b[1] * a[2]

RGt(a, b) == RLt(b, a)

RLe(a, b) == NotNa(a) /\ NotNa(b) /\ a[1] * b[2] <= b[1] * a[2]

RGe(a, b) == RLe(b, a)

REq(a, b) == NotNa(a) /\ NotNa(b) /\ a[1] * b[2] = b[1] * a[2]

\* the same value, NaN included (used to compare results, not by the code)
Same(a, b) == IF IsNaN(a) \/ IsNaN(b) THEN IsNaN(a) /\ IsNaN(b) ELSE REq(a, b)

RECURSIVE SetSum(_)
\* pandas Series.sum() / SQL SUM over the non-null values; 0 when there are none
SetSum(S) ==
    IF S = {} THEN R(0)
    ELSE LET x == CHOOSE y \in S : TRUE
         IN  IF IsNaN(x.v) THEN SetSum(S \ {x}) ELSE RAdd(x.v, SetSum(S \ {x}))

\* the column `col` of the rows `rows` as a set of cells <<id, value>>
Column(rows, col) == {[k |-> r.id, v |-> r[col]] : r \in rows}

NonNull(cells) == {c \in cells : NotNa(c.v)}

\* SQL SUM(col): NULL when no row has a value
SqlSum(rows, col) ==
    IF NonNull(Column(rows, col)) = {} THEN NaN ELSE SetSum(Column(rows, col))

\* SQL AVG(col) / pandas mean(): over the non-null values, NULL when none
SqlAvg(rows, col) ==
    IF NonNull(Column(rows, col)) = {} THEN NaN
    ELSE RDiv(SetSum(Column(rows, col)), R(Cardinality(NonNull(Column(rows, col)))))

\* SQL MAX(col) over the non-null values, NULL when none
SqlMax(rows, col) ==
    LET nn == NonNull(Column(rows, col))
    IN  IF nn = {} THEN NaN
        ELSE (CHOOSE c \in nn : \A o \in nn : RLe(o.v, c.v)).v

(***************************************************************************)
(* DuckDBManager: the two tables and their loads.                          *)
(***************************************************************************)
BadTime == 0 - 1

NaT == 0 - 2

\* pd.to_datetime(df['record_time'], unit='ms', errors='coerce')
ToDatetime(raw) == IF raw = BadTime THEN NaT ELSE raw

\* the DataFrame after the timestamp conversion and the two dropna calls
CleanDf(df) ==
    LET conv == [i \in 1..Len(df) |->
                    [df[i] EXCEPT !.record_time = ToDatetime(df[i].record_time)]]
        Keep(r) == r.record_time # NaT /\ r.id # NULL
    IN  SelectSeq(conv, Keep)

RowsOf(df) == {df[i] : i \in 1..Len(df)}

\* the PRIMARY KEY of the table rejects an INSERT ... SELECT with a repeated id
PrimaryKeyOk(df) == \A i, j \in 1..Len(df) : df[i].id = df[j].id => i = j

\* one row of service_logs (the columns the modelled queries read)
ServiceRow(id, name, t, tc, ec, er, rt, p95, p99, te, tr) ==
    [id |-> id, service_name |-> name, record_time |-> t,
     total_count |-> tc, error_count |-> ec, error_rate |-> er,
     response_time_avg |-> rt, response_time_p95 |-> p95,
     response_time_p99 |-> p99, target_error_slo_perc |-> te,
     target_response_slo_sec |-> tr]

\* one row of error_logs
ErrorRow(id, t, tx, code, ec) ==
    [id |-> id, record_time |-> t, wm_transaction_id |-> tx,
     error_codes |-> code, error_count |-> ec]

\* mutant: the load appends to what the table holds instead of replacing it
InsertServiceLogs_Append(df) ==
    LET clean == CleanDf(df)
    IN  /\ service_logs' = service_logs \cup RowsOf(clean)
        /\ UNCHANGED error_logs
        /\ ret' = [op |-> "insert_service_logs", df |-> df, outcome |-> "returned"]

\* DuckDBManager.insert_service_logs(df)
InsertServiceLogs(df) ==
    LET clean == CleanDf(df)
    IN  IF df = <<>> \/ clean = <<>>
        THEN \* "skipping insert" / "All rows were invalid after cleaning"
             /\ UNCHANGED <<service_logs, error_logs>>
             /\ ret' = [op |-> "insert_service_logs", df |-> df,
                        outcome |-> "returned"]
        ELSE IF PrimaryKeyOk(clean)
        THEN \* DELETE FROM service_logs; INSERT INTO service_logs SELECT ...
             /\ service_logs' = RowsOf(clean)
             /\ UNCHANGED error_logs
             /\ ret' = [op |-> "insert_service_logs", df |-> df,
                        outcome |-> "returned"]
        ELSE \* the DELETE is committed, the INSERT fails and is re-raised
             /\ service_logs' = {}
             /\ UNCHANGED error_logs
             /\ ret' = [op |-> "insert_service_logs", df |-> df,
                        outcome |-> "raised"]

\* mutant: the table is cleared before the batch is looked at
InsertErrorLogs_DeleteFirst(df) ==
    LET clean == CleanDf(df)
    IN  IF df = <<>> \/ clean = <<>>
        THEN /\ error_logs' = {}
             /\ UNCHANGED service_logs
             /\ ret' = [op |-> "insert_error_logs", df |-> df,
                        outcome |-> "returned"]
        ELSE IF PrimaryKeyOk(clean)
        THEN /\ error_logs' = RowsOf(clean)
             /\ UNCHANGED service_logs
             /\ ret' = [op |-> "insert_error_logs", df |-> df,
                        outcome |-> "returned"]
        ELSE /\ error_logs' = {}
             /\ UNCHANGED service_logs
             /\ ret' = [op |-> "insert_error_logs", df |-> df,
                        outcome |-> "raised"]

\* DuckDBManager.insert_error_logs(df)
InsertErrorLogs(df) ==
    LET clean == CleanDf(df)
    IN  IF df = <<>> \/ clean = <<>>
        THEN /\ UNCHANGED <<service_logs, error_logs>>
             /\ ret' = [op |-> "insert_error_logs", df |-> df,
                        outcome |-> "returned"]
        ELSE IF PrimaryKeyOk(clean)
        THEN /\ error_logs' = RowsOf(clean)
             /\ UNCHANGED service_logs
             /\ ret' = [op |-> "insert_error_logs", df |-> df,
                        outcome |-> "returned"]
        ELSE /\ error_logs' = {}
             /\ UNCHANGED service_logs
             /\ ret' = [op |-> "insert_error_logs", df |-> df,
                        outcome |-> "raised"]

\* DuckDBManager.get_time_range()['max_time']: MAX(record_time), NaT when empty
MaxRecordTime(tbl) ==
    IF tbl = {} THEN NaT
    ELSE (CHOOSE r \in tbl : \A o \in tbl : o.record_time <= r.record_time).record_time

\* the service names of a set of rows (the groups of GROUP BY service_name)
NamesOf(rows) == {r.service_name : r \in rows}

RowsFor(rows, name) == {r \in rows : r.service_name = name}

\* every ordering of a finite set, as sequences without repetition
Orderings(S) ==
    {f \in [1..Cardinality(S) -> S] : \A i, j \in 1..Cardinality(S) : f[i] = f[j] => i = j}

(***************************************************************************)
(* DegradationDetector                                                     *)
(***************************************************************************)
\* mutant: a zero baseline always gives 0 (new errors are not signalled)
PercentChange_ZeroBaseline(baseline, current) ==
    IF REq(baseline, R(0)) THEN R(0)
    ELSE RMul(RDiv(RSub(current, baseline), baseline), R(100))

\* DegradationDetector._calculate_percent_change(baseline, current)
PercentChange(baseline, current) ==
    IF REq(baseline, R(0))
    THEN (IF RGt(current, R(0)) THEN R(100) ELSE R(0))
    ELSE RMul(RDiv(RSub(current, baseline), baseline), R(100))

RECURSIVE PyMaxFrom(_, _, _)
PyMaxFrom(best, s, i) ==
    IF i > Len(s) THEN best
    ELSE PyMaxFrom(IF RGt(s[i], best) THEN s[i] ELSE best, s, i + 1)

\* Python's max(a, b, ...): the first argument, replaced by each later one that
\* compares greater (so a NaN first argument survives)
PyMax(s) == PyMaxFrom(s[1], s, 2)

\* DegradationDetector._classify_severity(...)
ClassifySeverity(error_rate_change, response_time_change, p95_change, p99_change) ==
    LET max_change == PyMax(<<error_rate_change, response_time_change,
                              p95_change, p99_change>>)
    IN  IF RGt(max_change, R(100)) THEN "critical"
        ELSE IF RGt(max_change, R(50)) THEN "warning"
        ELSE "minor"

\* rows selected by recent_sql: window_start <= record_time <= current_time
RecentRows(tbl, W) ==
    LET current_time == MaxRecordTime(tbl)
        window_start == current_time - W
    IN  {r \in tbl : r.record_time >= window_start /\ r.record_time <= current_time}

\* mutant: the baseline window is closed at baseline_end
BaselineRows_Closed(tbl, W) ==
    LET current_time == MaxRecordTime(tbl)
        baseline_end == current_time - W
        baseline_start == baseline_end - W
    IN  {r \in tbl : r.record_time >= baseline_start /\ r.record_time <= baseline_end}

\* rows selected by baseline_sql: baseline_start <= record_time < baseline_end
BaselineRows(tbl, W) ==
    LET current_time == MaxRecordTime(tbl)
        window_start == current_time - W
        baseline_end == window_start
        baseline_start == baseline_end - W
    IN  {r \in tbl : r.record_time >= baseline_start /\ r.record_time < baseline_end}

\* one row of recent_df / baseline_df: the aggregates of one service's rows
WindowAggregate(rows) ==
    [avg_error_rate |-> SqlAvg(rows, "error_rate"),
     avg_response_time |-> SqlAvg(rows, "response_time_avg"),
     avg_response_time_p95 |-> SqlAvg(rows, "response_time_p95"),
     avg_response_time_p99 |-> SqlAvg(rows, "response_time_p99"),
     total_requests |-> SqlSum(rows, "total_count"),
     total_errors |-> SqlSum(rows, "error_count")]

\* p95_change / p99_change: computed only when both means are present
OptionalChange(baseline, recent) ==
    IF NotNa(recent) /\ NotNa(baseline) THEN PercentChange(baseline, recent) ELSE R(0)

\* the body of the loop over comparison.iterrows() for one merged row
ComparisonEntry(name, recent, baseline) ==
    LET r == WindowAggregate(RowsFor(recent, name))
        b == WindowAggregate(RowsFor(baseline, name))
        error_rate_change == PercentChange(b.avg_error_rate, r.avg_error_rate)
        response_time_change == PercentChange(b.avg_response_time, r.avg_response_time)
        p95_change == OptionalChange(b.avg_response_time_p95, r.avg_response_time_p95)
        p99_change == OptionalChange(b.avg_response_time_p99, r.avg_response_time_p99)
    IN  [service_name |-> name,
         error_rate_recent |-> r.avg_error_rate,
         error_rate_baseline |-> b.avg_error_rate,
         error_rate_change_percent |-> error_rate_change,
         response_time_recent |-> r.avg_response_time,
         response_time_baseline |-> b.avg_response_time,
         response_time_change_percent |-> response_time_change,
         response_time_p95_change_percent |-> p95_change,
         response_time_p99_change_percent |-> p99_change,
         total_requests_recent |-> (IF NotNa(r.total_requests) THEN r.total_requests ELSE R(0)),
         total_errors_recent |-> (IF NotNa(r.total_errors) THEN r.total_errors ELSE R(0)),
         severity |-> ClassifySeverity(error_rate_change, response_time_change,
                                       p95_change, p99_change)]

\* mutant: a change equal to the threshold counts as degrading
IsDegrading_AtLeast(e, threshold_percent) ==
    \/ RGe(e.error_rate_change_percent, threshold_percent)
    \/ RGe(e.response_time_change_percent, threshold_percent)
    \/ RGe(e.response_time_p95_change_percent, threshold_percent)
    \/ RGe(e.response_time_p99_change_percent, threshold_percent)

\* is_degrading
IsDegrading(e, threshold_percent) ==
    \/ RGt(e.error_rate_change_percent, threshold_percent)
    \/ RGt(e.response_time_change_percent, threshold_percent)
    \/ RGt(e.response_time_p95_change_percent, threshold_percent)
    \/ RGt(e.response_time_p99_change_percent, threshold_percent)

\* the sort key of degrading_services.sort(...)
DegradationKey(e) ==
    PyMax(<<e.error_rate_change_percent, e.response_time_change_percent,
            e.response_time_p95_change_percent, e.response_time_p99_change_percent>>)

\* recent_df.merge(baseline_df, on='service_name', how='inner'): its keys
MergedNames(recent, baseline) == NamesOf(recent) \cap NamesOf(baseline)

RECURSIVE InsertDesc(_, _, _)
\* the pair x = <<key, item>> placed into the descending-sorted sequence s behind
\* every pair whose key it does not exceed (s[i..] are still to be passed)
InsertDesc(s, x, i) ==
    IF i > Len(s) THEN Append(s, x)
    ELSE IF RLt(s[i][1], x[1])
         THEN SubSeq(s, 1, i - 1) \o <<x>> \o SubSeq(s, i, Len(s))
         ELSE InsertDesc(s, x, i + 1)

RECURSIVE SortDescFrom(_, _, _)
SortDescFrom(done, s, i) ==
    IF i > Len(s) THEN done
    ELSE SortDescFrom(InsertDesc(done, s[i], 1), s, i + 1)

\* list.sort(key=..., reverse=True) on <<key, item>> pairs: stable, descending
SortDesc(s) == SortDescFrom(<<>>, s, 1)

\* the list built by the loop and sorted, for the merged rows in the order `order`
DegradingList(order, recent, baseline, threshold_percent) ==
    LET entries == [i \in 1..Len(order) |-> ComparisonEntry(order[i], recent, baseline)]
        Degrading(e) == IsDegrading(e, threshold_percent)
        degrading_services == SelectSeq(entries, Degrading)
        sorted == SortDesc([i \in 1..Len(degrading_services) |->
                              <<DegradationKey(degrading_services[i]),
                                degrading_services[i]>>])
    IN  [i \in 1..Len(sorted) |-> sorted[i][2]]

\* mutant: the detection prunes the records older than its baseline window
DetectDegradingServices_Prune(W, threshold_percent) ==
    /\ service_logs' = {r \in service_logs :
                          r.record_time >= MaxRecordTime(service_logs) - 2 * W}
    /\ UNCHANGED error_logs
    /\ IF MaxRecordTime(service_logs) = NaT
       THEN ret' = [op |-> "detect_degrading_services", outcome |-> "raised"]
       ELSE LET recent == RecentRows(service_logs, W)
                baseline == BaselineRows(service_logs, W)
            IN  \E order \in Orderings(MergedNames(recent, baseline)) :
                    ret' = [op |-> "detect_degrading_services", outcome |-> "returned",
                            W |-> W, threshold_percent |-> threshold_percent,
                            value |-> DegradingList(order, recent, baseline,
                                                    threshold_percent),
                            recent |-> recent, baseline |-> baseline,
                            order |-> order]

\* DegradationDetector.detect_degrading_services(time_window_minutes, threshold_percent)
\* The row order of the merged frame follows the GROUP BY output, which SQL
\* leaves unspecified: any ordering of the merged services.
DetectDegradingServices(W, threshold_percent) ==
    /\ UNCHANGED <<service_logs, error_logs>>
    /\ IF MaxRecordTime(service_logs) = NaT
       THEN \* `not NaT` is False: the queries run with 'NaT' as their bounds
            \/ ret' = [op |-> "detect_degrading_services", outcome |-> "raised"]
            \/ ret' = [op |-> "detect_degrading_services", outcome |-> "returned",
                       W |-> W, threshold_percent |-> threshold_percent,
                       value |-> <<>>, recent |-> {}, baseline |-> {},
                       order |-> <<>>]
       ELSE LET recent == RecentRows(service_logs, W)
                baseline == BaselineRows(service_logs, W)
            IN  \E order \in Orderings(MergedNames(recent, baseline)) :
                    ret' = [op |-> "detect_degrading_services", outcome |-> "returned",
                            W |-> W, threshold_percent |-> threshold_percent,
                            value |-> DegradingList(order, recent, baseline,
                                                    threshold_percent),
                            recent |-> recent, baseline |-> baseline,
                            order |-> order]

(***************************************************************************)
(* SLOCalculator                                                           *)
(***************************************************************************)
\* mutant: overall_slo_met is the disjunction of the two flags
SliRow_Or(name, rows) ==
    LET avg_error_rate == SqlAvg(rows, "error_rate")
        avg_response_time == SqlAvg(rows, "response_time_avg")
        error_slo_target == SqlMax(rows, "target_error_slo_perc")
        response_slo_target == SqlMax(rows, "target_response_slo_sec")
    IN  [service_name |-> name,
         last_update |-> MaxRecordTime(rows),
         avg_error_rate |-> avg_error_rate,
         avg_response_time |-> avg_response_time,
         total_requests |-> SqlSum(rows, "total_count"),
         total_errors |-> SqlSum(rows, "error_count"),
         error_slo_target |-> error_slo_target,
         response_slo_target |-> response_slo_target,
         error_slo_met |-> RLe(avg_error_rate, error_slo_target),
         response_slo_met |-> RLe(avg_response_time, response_slo_target),
         overall_slo_met |-> (RLe(avg_error_rate, error_slo_target)
                              \/ RLe(avg_response_time, response_slo_target))]

\* one row of get_current_sli: the aggregates of one service's rows and the three
\* compliance flags (avg_success_rate, which no flag reads, is left out)
SliRow(name, rows) ==
    LET avg_error_rate == SqlAvg(rows, "error_rate")
        avg_response_time == SqlAvg(rows, "response_time_avg")
        error_slo_target == SqlMax(rows, "target_error_slo_perc")
        response_slo_target == SqlMax(rows, "target_response_slo_sec")
        error_slo_met == RLe(avg_error_rate, error_slo_target)
        response_slo_met == RLe(avg_response_time, response_slo_target)
    IN  [service_name |-> name,
         last_update |-> MaxRecordTime(rows),
         avg_error_rate |-> avg_error_rate,
         avg_response_time |-> avg_response_time,
         total_requests |-> SqlSum(rows, "total_count"),
         total_errors |-> SqlSum(rows, "error_count"),
         error_slo_target |-> error_slo_target,
         response_slo_target |-> response_slo_target,
         error_slo_met |-> error_slo_met,
         response_slo_met |-> response_slo_met,
         overall_slo_met |-> (error_slo_met /\ response_slo_met)]

\* x sorts strictly before y under ORDER BY ... DESC (NULLS LAST)
SortsBeforeDesc(x, y) == NotNa(x) /\ (IsNaN(y) \/ RGt(x, y))

\* the frames get_current_sli may return: one row per service of the selected
\* rows, ORDER BY total_requests DESC, rows with equal totals in any order
CurrentSliFrames(tbl, service_name) ==
    LET sel == IF service_name # NULL /\ service_name # ""
               THEN RowsFor(tbl, service_name) ELSE tbl
        Total(n) == SqlSum(RowsFor(sel, n), "total_count")
    IN  {[i \in 1..Len(o) |-> SliRow(o[i], RowsFor(sel, o[i]))] :
            o \in {q \in Orderings(NamesOf(sel)) :
                      \A i, j \in 1..Len(q) :
                          i < j => ~SortsBeforeDesc(Total(q[j]), Total(q[i]))}}

\* SLOCalculator.get_current_sli(service_name)
GetCurrentSli(service_name) ==
    /\ UNCHANGED <<service_logs, error_logs>>
    /\ \E frame \in CurrentSliFrames(service_logs, service_name) :
          ret' = [op |-> "get_current_sli", service_name |-> service_name,
                  value |-> frame]

\* the violation_reasons of one SLI row
ViolationReasons(row) ==
    (IF ~row.error_slo_met THEN <<"error_rate">> ELSE <<>>)
    \o (IF ~row.response_slo_met THEN <<"response_time">> ELSE <<>>)

\* mutant: only the rows that miss the error SLO are kept
ViolationsList_ErrorOnly(frame) ==
    LET Violating(row) == ~row.error_slo_met
        violations == SelectSeq(frame, Violating)
    IN  [i \in 1..Len(violations) |->
            [service_name |-> violations[i].service_name,
             violations |-> ViolationReasons(violations[i]),
             error_rate |-> violations[i].avg_error_rate,
             response_time |-> violations[i].avg_response_time,
             total_requests |-> violations[i].total_requests]]

\* violations_list built from the frame of get_current_sli()
ViolationsList(frame) ==
    LET Violating(row) == ~row.overall_slo_met
        violations == SelectSeq(frame, Violating)
    IN  [i \in 1..Len(violations) |->
            [service_name |-> violations[i].service_name,
             violations |-> ViolationReasons(violations[i]),
             error_rate |-> violations[i].avg_error_rate,
             response_time |-> violations[i].avg_response_time,
             total_requests |-> violations[i].total_requests]]

\* SLOCalculator.get_slo_violations()
GetSloViolations ==
    /\ UNCHANGED <<service_logs, error_logs>>
    /\ \E frame \in CurrentSliFrames(service_logs, NULL) :
          ret' = [op |-> "get_slo_violations", value |-> ViolationsList(frame)]

\* DuckDBManager.get_service_logs(service_name): no time filter.  A service_name
\* that is None or '' adds no WHERE clause.
ServiceLogsOf(tbl, service_name) ==
    IF service_name # NULL /\ service_name # ""
    THEN {r \in tbl : r.service_name = service_name}
    ELSE tbl

\* DuckDBManager.get_service_logs(service_name, start_time, end_time)
GetServiceLogs(tbl, service_name, start_time, end_time) ==
    {r \in ServiceLogsOf(tbl, service_name) :
        r.record_time >= start_time /\ r.record_time <= end_time}

\* the rows that ORDER BY record_time DESC may put first
FirstRowsDesc(rows) == {r \in rows : r.record_time = MaxRecordTime(rows)}

MinutesPerHour == 60

\* int(x) if pd.notna(x) else 0: truncation toward zero
IntOrZero(x) ==
    IF IsNaN(x) THEN R(0)
    ELSE IF x[1] >= 0 THEN R(x[1] \div x[2])
    ELSE R(0 - ((0 - x[1]) \div x[2]))

\* mutant: healthy also when nothing of the budget remains
ErrorBudgetOf_AtLeast(service_name, time_window_hours, df, first) ==
    LET total_requests == SetSum(Column(df, "total_count"))
        total_errors == SetSum(Column(df, "error_count"))
        error_slo_target == first.target_error_slo_perc
        error_budget == RMul(RDiv(error_slo_target, R(100)), total_requests)
        errors_consumed == total_errors
        budget_remaining == RSub(error_budget, errors_consumed)
        budget_consumed_percent ==
            IF RGt(error_budget, R(0))
            THEN RMul(RDiv(errors_consumed, error_budget), R(100)) ELSE R(0)
    IN  [service_name |-> service_name,
         time_window_hours |-> time_window_hours,
         total_requests |-> IntOrZero(total_requests),
         total_errors |-> IntOrZero(total_errors),
         error_slo_target_percent |-> error_slo_target,
         error_budget |-> error_budget,
         errors_consumed |-> IntOrZero(errors_consumed),
         budget_remaining |-> budget_remaining,
         budget_consumed_percent |-> budget_consumed_percent,
         status |-> IF RGe(budget_remaining, R(0)) THEN "healthy" ELSE "budget_exceeded"]

\* the result of calculate_error_budget for the non-empty frame df whose first
\* row is `first`
ErrorBudgetOf(service_name, time_window_hours, df, first) ==
    LET total_requests == SetSum(Column(df, "total_count"))
        total_errors == SetSum(Column(df, "error_count"))
        error_slo_target == first.target_error_slo_perc
        error_budget == RMul(RDiv(error_slo_target, R(100)), total_requests)
        errors_consumed == total_errors
        budget_remaining == RSub(error_budget, errors_consumed)
        budget_consumed_percent ==
            IF RGt(error_budget, R(0))
            THEN RMul(RDiv(errors_consumed, error_budget), R(100)) ELSE R(0)
    IN  [service_name |-> service_name,
         time_window_hours |-> time_window_hours,
         total_requests |-> IntOrZero(total_requests),
         total_errors |-> IntOrZero(total_errors),
         error_slo_target_percent |-> error_slo_target,
         error_budget |-> error_budget,
         errors_consumed |-> IntOrZero(errors_consumed),
         budget_remaining |-> budget_remaining,
         budget_consumed_percent |-> budget_consumed_percent,
         status |-> IF RGt(budget_remaining, R(0)) THEN "healthy" ELSE "budget_exceeded"]

\* SLOCalculator.calculate_error_budget(service_name, time_window_hours), called
\* when datetime.now() is `now`
CalculateErrorBudget(service_name, time_window_hours, now) ==
    LET end_time == now
        start_time == end_time - time_window_hours * MinutesPerHour
        df == GetServiceLogs(service_logs, service_name, start_time, end_time)
    IN  /\ UNCHANGED <<service_logs, error_logs>>
        /\ IF df = {}
           THEN ret' = [op |-> "calculate_error_budget", now |-> now,
                        time_window_hours |-> time_window_hours,
                        value |-> [service_name |-> service_name,
                                   error |-> "No data found for this service"]]
           ELSE \E first \in FirstRowsDesc(df) :
                  ret' = [op |-> "calculate_error_budget", now |-> now,
                          time_window_hours |-> time_window_hours,
                          value |-> ErrorBudgetOf(service_name, time_window_hours,
                                                  df, first)]

\* the severity of a burn rate
BurnSeverity(burn_rate) ==
    IF RLt(burn_rate, R(1)) THEN "healthy"
    ELSE IF RLt(burn_rate, R(2)) THEN "warning"
    ELSE IF RLt(burn_rate, R(10)) THEN "critical"
    ELSE "emergency"

\* mutant: a burn rate of exactly 2 is still a warning
BurnRateOf_LateCritical(service_name, time_window_minutes, df, first) ==
    LET total_requests == SetSum(Column(df, "total_count"))
        total_errors == SetSum(Column(df, "error_count"))
        actual_error_rate ==
            IF RGt(total_requests, R(0))
            THEN RMul(RDiv(total_errors, total_requests), R(100)) ELSE R(0)
        error_slo_target == first.target_error_slo_perc
        burn_rate == IF RGt(error_slo_target, R(0))
                     THEN RDiv(actual_error_rate, error_slo_target) ELSE R(0)
    IN  [service_name |-> service_name,
         time_window_minutes |-> time_window_minutes,
         actual_error_rate |-> actual_error_rate,
         error_slo_target |-> error_slo_target,
         burn_rate |-> burn_rate,
         severity |-> (IF RLt(burn_rate, R(1)) THEN "healthy"
                       ELSE IF RLe(burn_rate, R(2)) THEN "warning"
                       ELSE IF RLt(burn_rate, R(10)) THEN "critical"
                       ELSE "emergency"),
         total_requests |-> IntOrZero(total_requests),
         total_errors |-> IntOrZero(total_errors)]

\* the result of calculate_burn_rate for the non-empty frame df whose first row
\* is `first`
BurnRateOf(service_name, time_window_minutes, df, first) ==
    LET total_requests == SetSum(Column(df, "total_count"))
        total_errors == SetSum(Column(df, "error_count"))
        actual_error_rate ==
            IF RGt(total_requests, R(0))
            THEN RMul(RDiv(total_errors, total_requests), R(100)) ELSE R(0)
        error_slo_target == first.target_error_slo_perc
        burn_rate == IF RGt(error_slo_target, R(0))
                     THEN RDiv(actual_error_rate, error_slo_target) ELSE R(0)
    IN  [service_name |-> service_name,
         time_window_minutes |-> time_window_minutes,
         actual_error_rate |-> actual_error_rate,
         error_slo_target |-> error_slo_target,
         burn_rate |-> burn_rate,
         severity |-> BurnSeverity(burn_rate),
         total_requests |-> IntOrZero(total_requests),
         total_errors |-> IntOrZero(total_errors)]

\* SLOCalculator.calculate_burn_rate(service_name, time_window_minutes), called
\* when datetime.now() is `now`
CalculateBurnRate(service_name, time_window_minutes, now) ==
    LET end_time == now
        start_time == end_time - time_window_minutes
        df == GetServiceLogs(service_logs, service_name, start_time, end_time)
    IN  /\ UNCHANGED <<service_logs, error_logs>>
        /\ IF df = {}
           THEN ret' = [op |-> "calculate_burn_rate", now |-> now,
                        time_window_minutes |-> time_window_minutes,
                        value |-> [service_name |-> service_name,
                                   error |-> "No data found for this service"]]
           ELSE \E first \in FirstRowsDesc(df) :
                  ret' = [op |-> "calculate_burn_rate", now |-> now,
                          time_window_minutes |-> time_window_minutes,
                          value |-> BurnRateOf(service_name, time_window_minutes,
                                               df, first)]

(***************************************************************************)
(* TrendAnalyzer                                                           *)
(***************************************************************************)
\* the collation order of the service names (ORDER BY service_name: NULLS LAST)
NameOrder == <<"", "svc_a", "svc_b", "svc_x", NULL>>

\* DuckDBManager.get_all_services(): SELECT DISTINCT service_name ... ORDER BY
\* service_name, as a list
GetAllServices(tbl) ==
    LET Known(n) == n \in NamesOf(tbl)
    IN  SelectSeq(NameOrder, Known)

\* one call of DuckDBManager.get_all_services()
ListServices ==
    /\ UNCHANGED <<service_logs, error_logs>>
    /\ ret' = [op |-> "get_all_services", value |-> GetAllServices(service_logs)]

RECURSIVE TimeOrderings(_)
\* df.sort_values('record_time'): the rows in ascending record_time; the order
\* of rows with equal record_time is not fixed (quicksort)
TimeOrderings(rows) ==
    IF rows = {} THEN {<<>>}
    ELSE UNION {{<<r>> \o rest : rest \in TimeOrderings(rows \ {r})} :
                  r \in {x \in rows : \A o \in rows : x.record_time <= o.record_time}}

RECURSIVE SeqSumFrom(_, _)
SeqSumFrom(s, i) == IF i > Len(s) THEN R(0) ELSE RAdd(s[i], SeqSumFrom(s, i + 1))

\* the sum of a sequence of numbers
SeqSum(s) == SeqSumFrom(s, 1)

HasNaN(values) == \E i \in 1..Len(values) : IsNaN(values[i])

\* TrendAnalyzer._calculate_linear_trend(values): the least-squares slope of
\* values over x = 0..n-1, NaN when a value is NaN and polyfit does not raise
LinearTrend(values) ==
    LET n == Len(values)
        sx == (n * (n - 1)) \div 2
        sxx == ((n - 1) * n * (2 * n - 1)) \div 6
        sy == SeqSum(values)
        sxy == SeqSum([i \in 1..n |-> RMul(R(i - 1), values[i])])
    IN  IF n < 2 THEN R(0)
        ELSE IF HasNaN(values) THEN NaN
        ELSE RDiv(RSub(RMul(R(n), sxy), RMul(R(sx), sy)), R(n * sxx - sx * sx))

\* the square of Series.std() (ddof=1, NaN skipped): NaN below two values
SampleVariance(values) ==
    LET ys == SelectSeq(values, NotNa)
        m == Len(ys)
        sy == SeqSum(ys)
        syy == SeqSum([i \in 1..m |-> RMul(ys[i], ys[i])])
    IN  IF m < 2 THEN NaN
        ELSE RDiv(RSub(RMul(R(m), syy), RMul(sy, sy)), R(m * (m - 1)))

\* slope > bound on the float polyfit returns: either way when the exact slope
\* is the bound itself
SlopeExceeds(slope, bound) ==
    IF IsNaN(slope) THEN {FALSE}
    ELSE IF REq(slope, bound) THEN BOOLEAN
    ELSE {RGt(slope, bound)}

\* mutant: a score of 50 is still medium
RiskLevel_LateHigh(risk_score) ==
    IF risk_score >= 70 THEN "critical"
    ELSE IF risk_score > 55 THEN "high"
    ELSE IF risk_score >= 30 THEN "medium"
    ELSE "low"

\* risk level of a risk score
RiskLevel(risk_score) ==
    IF risk_score >= 70 THEN "critical"
    ELSE IF risk_score >= 50 THEN "high"
    ELSE IF risk_score >= 30 THEN "medium"
    ELSE "low"

RECURSIVE WeightSumFrom(_, _)
WeightSumFrom(fs, i) == IF i > Len(fs) THEN 0 ELSE fs[i][2] + WeightSumFrom(fs, i + 1)

\* what _analyze_service_trend returns for the latest row and the computed
\* slopes, trend flags and variance
TrendResult(service_name, latest, error_rate_trend, response_time_trend, er_up, rt_up, variance) ==
    LET current_error_rate == latest.error_rate
        current_response_time == latest.response_time_avg
        error_slo_target == latest.target_error_slo_perc
        response_slo_target == latest.target_response_slo_sec
        checks ==
            << <<"error_rate_trend", 30, er_up>>,
               <<"response_time_trend", 20, rt_up>>,
               <<"error_rate_near_target", 25,
                 RGt(current_error_rate, RMul(error_slo_target, Rat(7, 10)))>>,
               <<"response_time_near_target", 25,
                 RGt(current_response_time, RMul(response_slo_target, Rat(7, 10)))>>,
               <<"error_rate_volatility", 15, RGt(variance, R(25))>>,
               <<"error_rate_violation", 40, RGt(current_error_rate, error_slo_target)>>,
               <<"response_time_violation", 40,
                 RGt(current_response_time, response_slo_target)>> >>
        Triggered(c) == c[3]
        risk_factors == SelectSeq(checks, Triggered)
        risk_score == WeightSumFrom(risk_factors, 1)
    IN  IF risk_factors = <<>> THEN [kind |-> "none"]
        ELSE [kind |-> "prediction",
              service_name |-> service_name,
              risk_level |-> RiskLevel(risk_score),
              risk_score |-> risk_score,
              risk_factors |-> [i \in 1..Len(risk_factors) |-> risk_factors[i][1]],
              error_rate |-> current_error_rate,
              response_time |-> current_response_time,
              total_requests |-> IntOrZero(latest.total_count),
              error_rate_target |-> error_slo_target,
              response_time_target |-> response_slo_target,
              error_rate_slope |-> error_rate_trend,
              response_time_slope |-> response_time_trend]

\* the outcomes of _analyze_service_trend on the time-sorted frame df of at
\* least 3 rows: polyfit on a column holding NaN raises LinAlgError or yields NaN
TrendOutcomes(service_name, df) ==
    LET er == [i \in 1..Len(df) |-> df[i].error_rate]
        rt == [i \in 1..Len(df) |-> df[i].response_time_avg]
        error_rate_trend == LinearTrend(er)
        response_time_trend == LinearTrend(rt)
    IN  (IF HasNaN(er) \/ HasNaN(rt) THEN {[kind |-> "raised"]} ELSE {})
        \cup
        {TrendResult(service_name, df[Len(df)], error_rate_trend, response_time_trend,
                     er_up, rt_up, SampleVariance(er)) :
            er_up \in SlopeExceeds(error_rate_trend, Rat(1, 10)),
            rt_up \in SlopeExceeds(response_time_trend, Rat(1, 1000))}

\* TrendAnalyzer._analyze_service_trend(service_name, current_time): the set of
\* its possible outcomes
AnalyzeServiceTrend(tbl, service_name) ==
    LET df == ServiceLogsOf(tbl, service_name)
    IN  IF Cardinality(df) < 3 THEN {[kind |-> "none"]}
        ELSE UNION {TrendOutcomes(service_name, o) : o \in TimeOrderings(df)}

\* mutant: predictions of medium risk are kept too
PredictionsList_Medium(outcomes) ==
    LET Kept(o) == o.kind = "prediction" /\ o.risk_level \in {"medium", "high", "critical"}
        predictions == SelectSeq(outcomes, Kept)
        sorted == SortDesc([i \in 1..Len(predictions) |->
                              <<R(predictions[i].risk_score), predictions[i]>>])
    IN  [i \in 1..Len(sorted) |-> sorted[i][2]]

\* the list predict_issues_today builds from the outcomes of the services, in
\* the order of get_all_services
PredictionsList(outcomes) ==
    LET Kept(o) == o.kind = "prediction" /\ o.risk_level \in {"high", "critical"}
        predictions == SelectSeq(outcomes, Kept)
        sorted == SortDesc([i \in 1..Len(predictions) |->
                              <<R(predictions[i].risk_score), predictions[i]>>])
    IN  [i \in 1..Len(sorted) |-> sorted[i][2]]

RECURSIVE AnalyzedFrom(_, _, _)
\* the outcomes the loop over `services` can collect from position i on
AnalyzedFrom(tbl, services, i) ==
    IF i > Len(services) THEN {<<>>}
    ELSE {<<o>> \o rest : o \in AnalyzeServiceTrend(tbl, services[i]),
                          rest \in AnalyzedFrom(tbl, services, i + 1)}

\* TrendAnalyzer.predict_issues_today()
PredictIssuesToday ==
    LET services == GetAllServices(service_logs)
    IN  /\ UNCHANGED <<service_logs, error_logs>>
        /\ \E outcomes \in AnalyzedFrom(service_logs, services, 1) :
             IF \E i \in 1..Len(services) : outcomes[i].kind = "raised"
             THEN ret' = [op |-> "predict_issues_today", outcome |-> "raised"]
             ELSE ret' = [op |-> "predict_issues_today", outcome |-> "returned",
                          services |-> services, analyzed |-> outcomes,
                          value |-> PredictionsList(outcomes)]

\* one call of TrendAnalyzer._analyze_service_trend(service_name, current_time);
\* ret.df is the frame after sort_values (empty when the call returned before)
AnalyzeTrendCall(service_name) ==
    LET df == ServiceLogsOf(service_logs, service_name)
    IN  /\ UNCHANGED <<service_logs, error_logs>>
        /\ IF Cardinality(df) < 3
           THEN ret' = [op |-> "_analyze_service_trend", service_name |-> service_name,
                        df |-> <<>>, value |-> [kind |-> "none"]]
           ELSE \E o \in TimeOrderings(df) :
                  \E out \in TrendOutcomes(service_name, o) :
                     ret' = [op |-> "_analyze_service_trend",
                             service_name |-> service_name, df |-> o, value |-> out]

(***************************************************************************)
(* DegradationDetector.get_error_code_distribution                         *)
(***************************************************************************)
\* a row of service_logs with its sid column
WithSid(row, sid) ==
    [k \in DOMAIN row \cup {"sid"} |-> IF k = "sid" THEN sid ELSE row[k]]

\* SELECT DISTINCT sid as transaction_id FROM service_logs WHERE service_name = ...
TransactionIds(tbl, service_name) == {r.sid : r \in RowsFor(tbl, service_name)}

\* the rows of error_logs the WHERE clause selects; has_ids tells whether the
\* wm_transaction_id IN (...) clause was added
ErrorRowsSelected(errors, window_start, current_time, has_ids, transaction_ids) ==
    {e \in errors :
        /\ e.record_time >= window_start
        /\ e.record_time <= current_time
        /\ has_ids => \E x \in transaction_ids : REq(e.wm_transaction_id, x)}

\* one row of the grouped frame: the aggregates of the rows of one error code
ErrorCodeAggregate(code, rows) ==
    [error_codes |-> code,
     occurrence_count |-> Cardinality(rows),
     total_errors |-> SqlSum(rows, "error_count")]

\* one entry of the distribution
DistributionEntry(row, total_errors_all) ==
    [error_code |-> row.error_codes,
     count |-> IntOrZero(row.total_errors),
     percentage |-> IF RGt(total_errors_all, R(0)) /\ NotNa(row.total_errors)
                    THEN RMul(RDiv(row.total_errors, total_errors_all), R(100))
                    ELSE R(0),
     occurrences |-> row.occurrence_count]

\* the orders ORDER BY total_errors DESC may give to the grouped rows
ErrorCodeFrames(selected) ==
    LET codes == {e.error_codes : e \in selected}
        Agg(c) == ErrorCodeAggregate(c, {e \in selected : e.error_codes = c})
    IN  {[i \in 1..Cardinality(codes) |-> Agg(o[i])] : o \in
            {o \in Orderings(codes) :
                \A i, j \in 1..Cardinality(codes) :
                    i < j => ~SortsBeforeDesc(Agg(o[j]).total_errors,
                                              Agg(o[i]).total_errors)}}

\* the result of get_error_code_distribution for the grouped frame df
ErrorCodeDistribution(service_name, time_window_minutes, df) ==
    LET total_errors_all == SeqSum([i \in 1..Len(df) |->
                               IF NotNa(df[i].total_errors) THEN df[i].total_errors
                               ELSE R(0)])
    IN  [service_name |-> IF service_name # NULL /\ service_name # ""
                          THEN service_name ELSE "all_services",
         time_window_minutes |-> time_window_minutes,
         total_errors |-> IF df # <<>> THEN IntOrZero(total_errors_all) ELSE R(0),
         distribution |-> [i \in 1..Len(df) |->
                              DistributionEntry(df[i], total_errors_all)]]

\* DegradationDetector.get_error_code_distribution(service_name,
\* time_window_minutes).  On an empty service_logs get_time_range gives NaT, which
\* is truthy: the 'No data available' return is skipped and the query is built with
\* 'NaT' as its bounds; it either fails to bind or selects no row.
GetErrorCodeDistribution(service_name, time_window_minutes) ==
    LET current_time == MaxRecordTime(service_logs)
        window_start == current_time - time_window_minutes
        named == service_name # NULL /\ service_name # ""
        transaction_ids == IF named THEN TransactionIds(service_logs, service_name)
                           ELSE {}
        has_ids == named /\ transaction_ids # {}
        selected == ErrorRowsSelected(error_logs, window_start, current_time,
                                      has_ids, transaction_ids)
    IN  /\ UNCHANGED <<service_logs, error_logs>>
        /\ IF current_time = NaT
           THEN \/ ret' = [op |-> "get_error_code_distribution", outcome |-> "raised"]
                \/ ret' = [op |-> "get_error_code_distribution", outcome |-> "returned",
                           window_start |-> NaT, current_time |-> NaT,
                           value |-> ErrorCodeDistribution(service_name,
                                                           time_window_minutes, <<>>)]
           ELSE IF has_ids /\ \E x \in transaction_ids : IsNaN(x)
           THEN \* the IN list holds `nan`: the query does not bind
                ret' = [op |-> "get_error_code_distribution", outcome |-> "raised"]
           ELSE \E df \in ErrorCodeFrames(selected) :
                  ret' = [op |-> "get_error_code_distribution", outcome |-> "returned",
                          window_start |-> window_start, current_time |-> current_time,
                          value |-> ErrorCodeDistribution(service_name,
                                                          time_window_minutes, df)]

\* one entry of the time series of get_volume_trends
VolumePoint(row) ==
    [timestamp |-> row.record_time,
     total_requests |-> IntOrZero(row.total_count),
     errors |-> IntOrZero(row.error_count),
     error_rate |-> IF NotNa(row.error_rate) THEN row.error_rate ELSE R(0)]

\* the result of get_volume_trends for the non-empty frame df (rows in ascending
\* record_time)
VolumeTrendsOf(service_name, time_window_minutes, df) ==
    LET rows == {df[i] : i \in 1..Len(df)}
        total_volume == SetSum(Column(rows, "total_count"))
        total_errors == SetSum(Column(rows, "error_count"))
        avg_error_rate == SqlAvg(rows, "error_rate")
    IN  [service_name |-> service_name,
         time_window_minutes |-> time_window_minutes,
         summary |-> [total_volume |-> IntOrZero(total_volume),
                      total_errors |-> IntOrZero(total_errors),
                      avg_error_rate |-> IF NotNa(avg_error_rate)
                                         THEN avg_error_rate ELSE R(0)],
         time_series |-> [i \in 1..Len(df) |-> VolumePoint(df[i])]]

\* DegradationDetector.get_volume_trends(service_name, time_window_minutes).  The
\* name is written into the query as a string literal: None selects no row.  On an
\* empty service_logs the bounds of the query are 'NaT', as in
\* get_error_code_distribution.
GetVolumeTrends(service_name, time_window_minutes) ==
    LET current_time == MaxRecordTime(service_logs)
        window_start == current_time - time_window_minutes
        selected == IF service_name = NULL THEN {}
                    ELSE {r \in RowsFor(service_logs, service_name) :
                            /\ r.record_time >= window_start
                            /\ r.record_time <= current_time}
        no_data == [error |-> "No data found for service", service_name |-> service_name]
    IN  /\ UNCHANGED <<service_logs, error_logs>>
        /\ IF current_time = NaT
           THEN \/ ret' = [op |-> "get_volume_trends", outcome |-> "raised"]
                \/ ret' = [op |-> "get_volume_trends", outcome |-> "returned",
                           service_name |-> service_name, value |-> no_data]
           ELSE IF selected = {}
           THEN ret' = [op |-> "get_volume_trends", outcome |-> "returned",
                        service_name |-> service_name, value |-> no_data]
           ELSE \E df \in TimeOrderings(selected) :
                   ret' = [op |-> "get_volume_trends", outcome |-> "returned",
                           service_name |-> service_name,
                           value |-> VolumeTrendsOf(service_name,
                                                    time_window_minutes, df)]

\* the earliest record_time of a non-empty frame
MinRecordTime(rows) ==
    CHOOSE t \in {r.record_time : r \in rows} :
        \A r \in rows : t <= r.record_time

\* the result of get_historical_patterns for the non-empty frame df: the number
\* of data points, the time range, the mean error rate and the traffic totals
HistoricalPatternsOf(service_name, df) ==
    LET total_req_sum == SetSum(Column(df, "total_count"))
    IN  [service_name |-> service_name,
         data_points |-> Cardinality(df),
         time_range |-> [start |-> MinRecordTime(df), end |-> MaxRecordTime(df)],
         error_rate_stats |-> [mean |-> SqlAvg(df, "error_rate")],
         traffic_stats |-> [total_requests |-> IntOrZero(total_req_sum)]]

\* TrendAnalyzer.get_historical_patterns(service_name)
GetHistoricalPatterns(service_name) ==
    LET df == ServiceLogsOf(service_logs, service_name)
    IN  /\ UNCHANGED <<service_logs, error_logs>>
        /\ ret' = [op |-> "get_historical_patterns", outcome |-> "returned",
                   service_name |-> service_name,
                   value |-> IF df = {}
                             THEN [error |-> "No data found for service",
                                   service_name |-> service_name]
                             ELSE HistoricalPatternsOf(service_name, df)]

\* the results calculate_error_budget(service_name, time_window_hours) can give
\* on the table tbl when datetime.now() is `now`
ErrorBudgetResults(tbl, service_name, time_window_hours, now) ==
    LET df == GetServiceLogs(tbl, service_name,
                             now - time_window_hours * MinutesPerHour, now)
    IN  IF df = {}
        THEN {[service_name |-> service_name,
               error |-> "No data found for this service"]}
        ELSE {ErrorBudgetOf(service_name, time_window_hours, df, first) :
                first \in FirstRowsDesc(df)}

\* the results calculate_burn_rate(service_name, time_window_minutes) can give
\* on the table tbl when datetime.now() is `now`
BurnRateResults(tbl, service_name, time_window_minutes, now) ==
    LET df == GetServiceLogs(tbl, service_name, now - time_window_minutes, now)
    IN  IF df = {}
        THEN {[service_name |-> service_name,
               error |-> "No data found for this service"]}
        ELSE {BurnRateOf(service_name, time_window_minutes, df, first) :
                first \in FirstRowsDesc(df)}

\* default windows of calculate_error_budget and calculate_burn_rate
DefaultBudgetHours == 4
DefaultBurnMinutes == 30

\* the result of get_service_summary for the first row sli of the SLI frame
ServiceSummaryOf(service_name, sli, error_budget, burn_rate) ==
    [service_name |-> service_name,
     sli |-> [error_rate |-> sli.avg_error_rate,
              response_time_avg |-> sli.avg_response_time,
              total_requests |-> sli.total_requests],
     slo_compliance |-> [error_slo_met |-> sli.error_slo_met,
                         response_slo_met |-> sli.response_slo_met,
                         overall_slo_met |-> sli.overall_slo_met],
     error_budget |-> error_budget,
     burn_rate |-> burn_rate]

\* SLOCalculator.get_service_summary(service_name), called when datetime.now()
\* is `now`
GetServiceSummary(service_name, now) ==
    /\ UNCHANGED <<service_logs, error_logs>>
    /\ \E sli_df \in CurrentSliFrames(service_logs, service_name) :
          IF sli_df = <<>>
          THEN ret' = [op |-> "get_service_summary", outcome |-> "returned",
                       service_name |-> service_name,
                       value |-> [error |-> "Service not found",
                                  service_name |-> service_name]]
          ELSE \E error_budget \in ErrorBudgetResults(service_logs, service_name,
                                                      DefaultBudgetHours, now),
                  burn_rate \in BurnRateResults(service_logs, service_name,
                                                DefaultBurnMinutes, now) :
                  ret' = [op |-> "get_service_summary", outcome |-> "returned",
                          service_name |-> service_name,
                          value |-> ServiceSummaryOf(service_name, sli_df[1],
                                                     error_budget, burn_rate)]

(***************************************************************************)
(* MetricsAggregator                                                       *)
(***************************************************************************)
\* mutant: a group whose comparisons are all false (NULL mean or target) falls
\* through both branches and is counted nowhere
HealthClass_Unclassified(rows) ==
    LET avg_error_rate == SqlAvg(rows, "error_rate")
        avg_response_time == SqlAvg(rows, "response_time_avg")
        error_slo_target == SqlMax(rows, "target_error_slo_perc")
        response_slo_target == SqlMax(rows, "target_response_slo_sec")
        error_slo_met == RLe(avg_error_rate, error_slo_target)
        response_slo_met == RLe(avg_response_time, response_slo_target)
    IN  IF error_slo_met /\ response_slo_met THEN "healthy"
        ELSE IF \/ RGt(avg_error_rate, RMul(error_slo_target, Rat(8, 10)))
                \/ RGt(avg_response_time, RMul(response_slo_target, Rat(8, 10)))
             THEN "degraded"
             ELSE IF \/ RGt(avg_error_rate, error_slo_target)
                     \/ RGt(avg_response_time, response_slo_target)
             THEN "violated"
             ELSE "none"

\* the class get_service_health_overview gives to the group `rows` of a service
HealthClass(rows) ==
    LET avg_error_rate == SqlAvg(rows, "error_rate")
        avg_response_time == SqlAvg(rows, "response_time_avg")
        error_slo_target == SqlMax(rows, "target_error_slo_perc")
        response_slo_target == SqlMax(rows, "target_response_slo_sec")
        error_slo_met == RLe(avg_error_rate, error_slo_target)
        response_slo_met == RLe(avg_response_time, response_slo_target)
    IN  IF error_slo_met /\ response_slo_met THEN "healthy"
        ELSE IF \/ RGt(avg_error_rate, RMul(error_slo_target, Rat(8, 10)))
                \/ RGt(avg_response_time, RMul(response_slo_target, Rat(8, 10)))
             THEN "degraded"
             ELSE "violated"

\* the number of services (GROUP BY service_name) of class c
HealthCount(tbl, c) ==
    Cardinality({n \in NamesOf(tbl) : HealthClass(RowsFor(tbl, n)) = c})

\* MetricsAggregator.get_service_health_overview()
GetServiceHealthOverview ==
    LET total_services == Len(GetAllServices(service_logs))
        healthy_count == HealthCount(service_logs, "healthy")
        sum_requests == SqlSum(service_logs, "total_count")
        sum_errors == SqlSum(service_logs, "error_count")
        total_requests == IF NotNa(sum_requests) THEN IntOrZero(sum_requests) ELSE R(0)
        total_errors == IF NotNa(sum_requests) THEN IntOrZero(sum_errors) ELSE R(0)
    IN  /\ UNCHANGED <<service_logs, error_logs>>
        /\ IF NotNa(sum_requests) /\ IsNaN(sum_errors)
           THEN \* int(nan)
                ret' = [op |-> "get_service_health_overview", outcome |-> "raised"]
           ELSE ret' = [op |-> "get_service_health_overview", outcome |-> "returned",
                        value |->
                          [total_services |-> total_services,
                           healthy_services |-> healthy_count,
                           degraded_services |-> HealthCount(service_logs, "degraded"),
                           violated_services |-> HealthCount(service_logs, "violated"),
                           total_requests |-> total_requests,
                           total_errors |-> total_errors,
                           overall_error_rate |->
                              IF RGt(total_requests, R(0))
                              THEN RMul(RDiv(total_errors, total_requests), R(100))
                              ELSE R(0),
                           health_percentage |->
                              IF total_services > 0
                              THEN RMul(Rat(healthy_count, total_services), R(100))
                              ELSE R(0)]]

\* one row of the grouped frame of get_slowest_services
SlowestAggregate(name, rows) ==
    [service_name |-> name,
     avg_response_time |-> SqlAvg(rows, "response_time_avg"),
     avg_p95 |-> SqlAvg(rows, "response_time_p95"),
     avg_p99 |-> SqlAvg(rows, "response_time_p99"),
     response_slo_target |-> SqlMax(rows, "target_response_slo_sec"),
     total_requests |-> SqlSum(rows, "total_count")]

\* mutant: the ranking ignores p99
SlowestKey_Average(row) == row.avg_response_time

\* COALESCE(avg_p99, avg_response_time)
SlowestKey(row) == IF NotNa(row.avg_p99) THEN row.avg_p99 ELSE row.avg_response_time

\* the frames GROUP BY service_name ORDER BY COALESCE(...) DESC LIMIT limit may
\* give
SlowestFrames(tbl, limit) ==
    LET names == NamesOf(tbl)
        Agg(n) == SlowestAggregate(n, RowsFor(tbl, n))
        n_rows == IF limit < Cardinality(names) THEN limit ELSE Cardinality(names)
    IN  {[i \in 1..n_rows |-> Agg(o[i])] : o \in
            {o \in Orderings(names) :
                \A i, j \in 1..Cardinality(names) :
                    i < j => ~SortsBeforeDesc(SlowestKey(Agg(o[j])), SlowestKey(Agg(o[i])))}}

\* one entry of the result of get_slowest_services
SlowestEntry(row) ==
    LET check_value == IF NotNa(row.avg_p99) THEN row.avg_p99 ELSE row.avg_response_time
    IN  [service_name |-> row.service_name,
         avg_response_time |-> IF NotNa(row.avg_response_time)
                               THEN row.avg_response_time ELSE R(0),
         response_time_p95 |-> row.avg_p95,
         response_time_p99 |-> row.avg_p99,
         response_slo_target |-> IF NotNa(row.response_slo_target)
                                 THEN row.response_slo_target ELSE R(1),
         total_requests |-> IntOrZero(row.total_requests),
         slo_met |-> IF NotNa(check_value) /\ NotNa(row.response_slo_target)
                     THEN RLe(check_value, row.response_slo_target) ELSE TRUE]

\* MetricsAggregator.get_slowest_services(limit)
GetSlowestServices(limit) ==
    /\ UNCHANGED <<service_logs, error_logs>>
    /\ \E df \in SlowestFrames(service_logs, limit) :
         ret' = [op |-> "get_slowest_services", limit |-> limit,
                 value |-> [i \in 1..Len(df) |-> SlowestEntry(df[i])]]

(***************************************************************************)
(* TrendAnalyzer.get_anomalies                                             *)
(***************************************************************************)
\* the value is a binary fraction: sums and means of a few such values are exact
\* in float64
ExactFloat(x) == x[2] \in {1, 2, 4, 8}

\* the statistics of one column of the frame df: mean() and std() skip NaN.
\* `inexact` tells that the values, three or more, are one and the same number
\* that float64 cannot hold: the mean may then be rounded away from it, which
\* leaves a std slightly above 0 and every deviation equal.
ColumnStats(df, col) ==
    LET values == [i \in 1..Len(df) |-> df[i][col]]
        ys == SelectSeq(values, NotNa)
        var == SampleVariance(values)
    IN  [mean |-> IF ys = <<>> THEN NaN ELSE RDiv(SeqSum(ys), R(Len(ys))),
        var |-> var,
        count |-> Len(ys),
        inexact |-> NotNa(var) /\ REq(var, R(0)) /\ Len(ys) >= 3 /\ ~ExactFloat(ys[1])]

\* whether the z-score of value v exceeds threshold_std, for the statistics st of
\* its column and the choice `rounded` (the std came out above 0 although all
\* values are equal).  abs(v - mean) / std if std > 0 else 0; a comparison with
\* NaN is False.  The z-score is compared through its square; on exact equality
\* the float comparison may fall either way.
ZScoreExceeds(v, st, rounded, threshold_std) ==
    LET dev == RSub(v, st.mean)
        lhs == RMul(dev, dev)
        rhs == RMul(RMul(threshold_std, threshold_std), st.var)
    IN  IF IsNaN(st.var) \/ (REq(st.var, R(0)) /\ ~rounded)
        THEN {RGt(R(0), threshold_std)}
        ELSE IF IsNaN(v) THEN {FALSE}
        ELSE IF RLt(threshold_std, R(0)) THEN {TRUE}
        ELSE IF REq(st.var, R(0))
        THEN \* all deviations equal d and std = d * sqrt(n / (n - 1))
             {RLt(RMul(RMul(threshold_std, threshold_std), R(st.count)),
                  R(st.count - 1))}
        ELSE IF REq(lhs, rhs) THEN BOOLEAN
        ELSE {RGt(lhs, rhs)}

\* what the loop body appends for one row: an entry when either z-score exceeds
\* the threshold
AnomalyEntries(row, e_over, r_over) ==
    IF e_over \/ r_over
    THEN {[timestamp |-> row.record_time,
           anomaly_type |-> (IF e_over THEN <<"error_rate">> ELSE <<>>)
                            \o (IF r_over THEN <<"response_time">> ELSE <<>>),
           error_rate |-> row.error_rate,
           response_time |-> row.response_time_avg]}
    ELSE {}

RECURSIVE AnomaliesFrom(_, _, _, _, _, _, _)
\* the lists the loop can build from the rows i.. of df
AnomaliesFrom(df, i, es, rs, e_rounded, r_rounded, threshold_std) ==
    IF i > Len(df) THEN {<<>>}
    ELSE UNION {UNION {
            LET here == AnomalyEntries(df[i], e_over, r_over)
                head == IF here = {} THEN <<>> ELSE <<CHOOSE e \in here : TRUE>>
            IN  {head \o rest : rest \in AnomaliesFrom(df, i + 1, es, rs, e_rounded,
                                                       r_rounded, threshold_std)} :
            r_over \in ZScoreExceeds(df[i].response_time_avg, rs, r_rounded,
                                     threshold_std)} :
         e_over \in ZScoreExceeds(df[i].error_rate, es, e_rounded, threshold_std)}

\* TrendAnalyzer.get_anomalies(service_name, threshold_std); ret.df is the frame
\* after sort_values
GetAnomalies(service_name, threshold_std) ==
    LET rows == ServiceLogsOf(service_logs, service_name)
    IN  /\ UNCHANGED <<service_logs, error_logs>>
        /\ IF rows = {}
           THEN ret' = [op |-> "get_anomalies", service_name |-> service_name,
                        threshold_std |-> threshold_std, df |-> <<>>, value |-> <<>>]
           ELSE \E df \in TimeOrderings(rows) :
                  LET es == ColumnStats(df, "error_rate")
                      rs == ColumnStats(df, "response_time_avg")
                  IN  \E e_rounded \in {FALSE, es.inexact}, r_rounded \in {FALSE, rs.inexact} :
                        \E value \in AnomaliesFrom(df, 1, es, rs, e_rounded, r_rounded,
                                                   threshold_std) :
                           ret' = [op |-> "get_anomalies",
                                   service_name |-> service_name,
                                   threshold_std |-> threshold_std,
                                   df |-> df, value |-> value]

(***************************************************************************)
(* DataLoader.load_and_store_all                                           *)
(***************************************************************************)
\* what insert_service_logs / insert_error_logs (the same statements on either
\* table) makes of the table tbl for the batch df, and how the call ends
InsertResult(tbl, df) ==
    LET clean == CleanDf(df)
    IN  IF df = <<>> \/ clean = <<>>
        THEN [table |-> tbl, outcome |-> "returned"]
        ELSE IF PrimaryKeyOk(clean)
        THEN [table |-> RowsOf(clean), outcome |-> "returned"]
        ELSE [table |-> {}, outcome |-> "raised"]

\* the frame of load_and_store_all when it ends at `stage`
LoadFrame(service_file, error_file, outcome, stage) ==
    [op |-> "load_and_store_all", outcome |-> outcome, stage |-> stage,
     service_file |-> service_file, error_file |-> error_file]

\* DataLoader.load_and_store_all(service_logs_path, error_logs_path).  A file is
\* [parsed |-> FALSE] when load_*_from_json raises on it (unreadable, not JSON)
\* and [parsed |-> TRUE, df |-> the DataFrame] otherwise.
LoadAndStoreAll(service_file, error_file) ==
    IF ~service_file.parsed
    THEN /\ UNCHANGED <<service_logs, error_logs>>
         /\ ret' = LoadFrame(service_file, error_file, "raised",
                             "load_service_logs_from_json")
    ELSE LET s == InsertResult(service_logs, service_file.df)
         IN  /\ service_logs' = s.table
             /\ IF s.outcome = "raised"
                THEN /\ UNCHANGED error_logs
                     /\ ret' = LoadFrame(service_file, error_file, "raised",
                                         "insert_service_logs")
                ELSE IF ~error_file.parsed
                THEN /\ UNCHANGED error_logs
                     /\ ret' = LoadFrame(service_file, error_file, "raised",
                                         "load_error_logs_from_json")
                ELSE LET e == InsertResult(error_logs, error_file.df)
                     IN  /\ error_logs' = e.table
                         /\ ret' = LoadFrame(service_file, error_file, e.outcome,
                                             "insert_error_logs")

(***************************************************************************)
(* ClaudeClient: send_message, handle_tool_use, chat                       *)
(***************************************************************************)
\* a text is the sequence of its words, "" is <<>>
FallbackText == <<"I was unable to generate a response. Please try rephrasing your question.">>

TextBlock(text) == [type |-> "text", text |-> text]

ToolUseBlock(id, name) == [type |-> "tool_use", id |-> id, name |-> name]

\* what bedrock.invoke_model can answer: a response body, or an exception
ApiFailure == [failed |-> TRUE]

ResponseBody(stop_reason, content) ==
    [failed |-> FALSE, stop_reason |-> stop_reason, content |-> content]

\* `response` after handle_tool_use returned None
NoResponse == [failed |-> FALSE, stop_reason |-> "None", content |-> <<>>]

\* a message of the history; str_content tells a str content from a list of blocks
Message(role, str_content, content) ==
    [role |-> role, str_content |-> str_content, content |-> content]

\* the history after the assistant turn of a response body: empty content is
\* not added
WithAssistant(history, reply) ==
    IF reply.content # <<>>
    THEN Append(history, Message("assistant", FALSE, reply.content))
    ELSE history

\* ClaudeClient.send_message(user_message, tools, system_prompt) on the history;
\* reply is what invoke_model does
SendMessage(history, user_message, reply) ==
    LET sent == Append(history, Message("user", TRUE, user_message))
    IN  IF reply.failed
        THEN [raised |-> TRUE, request |-> sent, history |-> sent, response |-> reply]
        ELSE [raised |-> FALSE, request |-> sent,
              history |-> WithAssistant(sent, reply), response |-> reply]

IsToolUse(block) == block.type = "tool_use"

\* the tool_result of one tool_use; executed is FALSE when tool_executor.execute
\* (or the serialisation of its result) raised
ToolResult(tool_use, executed) ==
    [type |-> "tool_result", tool_use_id |-> tool_use.id,
     content |-> IF executed THEN "result" ELSE "error"]

\* ClaudeClient.handle_tool_use(response, tool_executor, tools, system_prompt):
\* returned_none when the response holds no tool_use block
HandleToolUse(history, response, executed, reply) ==
    LET tool_uses == SelectSeq(response.content, IsToolUse)
        tool_results == [i \in 1..Len(tool_uses) |-> ToolResult(tool_uses[i], executed[i])]
        sent == Append(history, Message("user", FALSE, tool_results))
    IN  IF tool_uses = <<>>
        THEN [returned_none |-> TRUE, raised |-> FALSE, sent |-> FALSE, request |-> <<>>,
              history |-> history, response |-> NoResponse]
        ELSE IF reply.failed
        THEN [returned_none |-> FALSE, raised |-> TRUE, sent |-> TRUE, request |-> sent,
              history |-> sent, response |-> reply]
        ELSE [returned_none |-> FALSE, raised |-> FALSE, sent |-> TRUE, request |-> sent,
              history |-> WithAssistant(sent, reply), response |-> reply]

RECURSIVE TextFrom(_, _)
\* the concatenation of the text blocks of content from position i on
TextFrom(content, i) ==
    IF i > Len(content) THEN <<>>
    ELSE (IF content[i].type = "text" THEN content[i].text ELSE <<>>)
         \o TextFrom(content, i + 1)

\* the text chat returns for the final response
TextResponse(response) ==
    LET text_response == TextFrom(response.content, 1)
    IN  IF text_response = <<>> THEN FallbackText ELSE text_response

\* the condition of the while loop of chat
LoopCondition(c) ==
    /\ c.tool_executor
    /\ c.response.stop_reason = "tool_use"
    /\ c.iterations < c.max_tool_iterations

\* chat, up to the return of send_message
ChatSend(user_message, tool_executor, max_tool_iterations, reply) ==
    LET s == SendMessage(ret.conversation_history, user_message, reply)
    IN  /\ ret.pc # "loop"
        /\ UNCHANGED <<service_logs, error_logs>>
        /\ ret' = [op |-> "chat", chats |-> ret.chats + 1,
                   pc |-> IF s.raised THEN "done" ELSE "loop",
                   outcome |-> IF s.raised THEN "raised" ELSE "running",
                   conversation_history |-> s.history,
                   sent |-> TRUE, request |-> s.request, response |-> s.response,
                   tool_executor |-> tool_executor,
                   max_tool_iterations |-> max_tool_iterations,
                   iterations |-> 0, calls |-> 1, text |-> <<>>]

\* chat, one turn of the while loop
ChatToolRound(executed, reply) ==
    LET h == HandleToolUse(ret.conversation_history, ret.response, executed, reply)
    IN  /\ ret.pc = "loop"
        /\ LoopCondition(ret)
        /\ UNCHANGED <<service_logs, error_logs>>
        /\ ret' = [ret EXCEPT
                     !.conversation_history = h.history,
                     !.sent = h.sent,
                     !.request = h.request,
                     !.response = h.response,
                     \* after `break` response is None and response.get raises
                     !.pc = IF h.returned_none \/ h.raised THEN "done" ELSE "loop",
                     !.outcome = IF h.returned_none \/ h.raised THEN "raised" ELSE "running",
                     !.iterations = IF h.returned_none \/ h.raised THEN @ ELSE @ + 1,
                     !.calls = IF h.sent THEN @ + 1 ELSE @]

\* chat, from the end of the while loop to the return
ChatReturn ==
    /\ ret.pc = "loop"
    /\ ~LoopCondition(ret)
    /\ UNCHANGED <<service_logs, error_logs>>
    /\ ret' = [ret EXCEPT !.pc = "done", !.outcome = "returned", !.sent = FALSE,
                          !.text = TextResponse(ret.response)]

(***************************************************************************)
(* FunctionExecutor.execute and TOOLS                                      *)
(***************************************************************************)
\* a handler of FunctionExecutor: its name and the keyword parameters of its
\* signature (all of them, and those without default)
Handler(name, accepted, required) ==
    [handler |-> name, accepted |-> accepted, required |-> required]

\* mutant: get_top_errors is declared in TOOLS but missing from function_map
function_map_Partial ==
    [n \in {"get_degrading_services", "get_error_code_distribution", "get_current_sli",
            "predict_issues_today", "get_service_summary", "get_slo_violations",
            "calculate_error_budget", "get_volume_trends", "get_service_health_overview",
            "get_top_services_by_volume", "get_slowest_services",
            "get_error_prone_services", "get_historical_patterns"} |->
        Handler("_" \o n, {"service_name", "limit", "time_window_minutes",
                           "time_window_hours"}, {})]

\* function_map of FunctionExecutor.execute
function_map ==
    ("get_degrading_services" :>
        Handler("_get_degrading_services", {"time_window_minutes"}, {}))
    @@ ("get_error_code_distribution" :>
        Handler("_get_error_code_distribution", {"service_name", "time_window_minutes"}, {}))
    @@ ("get_current_sli" :> Handler("_get_current_sli", {"service_name"}, {}))
    @@ ("predict_issues_today" :> Handler("_predict_issues_today", {}, {}))
    @@ ("get_service_summary" :>
        Handler("_get_service_summary", {"service_name"}, {"service_name"}))
    @@ ("get_slo_violations" :> Handler("_get_slo_violations", {}, {}))
    @@ ("calculate_error_budget" :>
        Handler("_calculate_error_budget", {"service_name", "time_window_hours"},
                {"service_name"}))
    @@ ("get_volume_trends" :>
        Handler("_get_volume_trends", {"service_name", "time_window_minutes"},
                {"service_name"}))
    @@ ("get_service_health_overview" :> Handler("_get_service_health_overview", {}, {}))
    @@ ("get_top_services_by_volume" :> Handler("_get_top_services_by_volume", {"limit"}, {}))
    @@ ("get_slowest_services" :> Handler("_get_slowest_services", {"limit"}, {}))
    @@ ("get_error_prone_services" :> Handler("_get_error_prone_services", {"limit"}, {}))
    @@ ("get_top_errors" :> Handler("_get_top_errors", {"limit"}, {}))
    @@ ("get_historical_patterns" :>
        Handler("_get_historical_patterns", {"service_name"}, {"service_name"}))

\* the "name" entries of TOOLS, in order
TOOLS ==
    <<"get_degrading_services", "get_error_code_distribution", "get_current_sli",
      "predict_issues_today", "get_service_summary", "get_slo_violations",
      "calculate_error_budget", "get_volume_trends", "get_service_health_overview",
      "get_top_services_by_volume", "get_slowest_services", "get_error_prone_services",
      "get_top_errors", "get_historical_patterns">>

\* f"Unknown function: {function_name}", as the sequence of its parts
UnknownFunction(function_name) == <<"Unknown function: ", function_name>>

\* FunctionExecutor.execute(function_name, parameters): parameters is the set of
\* keywords passed; handler_raises is what the invoked handler does (the
\* handlers only read the store)
Execute(function_name, parameters, handler_raises) ==
    /\ UNCHANGED <<service_logs, error_logs>>
    /\ IF function_name \notin DOMAIN function_map
       THEN ret' = [op |-> "execute", function_name |-> function_name,
                    parameters |-> parameters, invoked |-> "none",
                    outcome |-> "returned",
                    value |-> [error |-> UnknownFunction(function_name)]]
       ELSE LET h == function_map[function_name]
            IN  IF ~(parameters \subseteq h.accepted /\ h.required \subseteq parameters)
                THEN \* TypeError of the call function_map[function_name](**parameters)
                     ret' = [op |-> "execute", function_name |-> function_name,
                             parameters |-> parameters, invoked |-> "none",
                             outcome |-> "raised", value |-> [error |-> <<>>]]
                ELSE ret' = [op |-> "execute", function_name |-> function_name,
                             parameters |-> parameters, invoked |-> h.handler,
                             outcome |-> IF handler_raises THEN "raised" ELSE "returned",
                             value |-> [error |-> <<>>]]

(***************************************************************************)
(* Specification Spec: the store under successive loads.                   *)
(***************************************************************************)
MaxBatch == 2

Services == {"svc_a", "svc_b"}

StoreIds == {NULL, "id1", "id2"}

StoreTimes == {BadTime, 0}

StoreServiceRows ==
    {ServiceRow(id, n, t, R(1), R(0), R(0), R(1), NaN, NaN, R(1), R(1)) :
        id \in StoreIds, n \in Services, t \in StoreTimes}

StoreErrorRows ==
    {ErrorRow(id, t, 1, "E500", R(1)) : id \in StoreIds, t \in StoreTimes}

SeqsUpTo(S, n) == UNION {[1..k -> S] : k \in 0..n}

\* the state after DuckDBManager.__init__ on a fresh database file
Init ==
    /\ service_logs = {}
    /\ error_logs = {}
    /\ ret = [op |-> "init"]

LoadService == \E df \in SeqsUpTo(StoreServiceRows, MaxBatch) : InsertServiceLogs(df)

LoadError == \E df \in SeqsUpTo(StoreErrorRows, MaxBatch) : InsertErrorLogs(df)

Next == LoadService \/ LoadError

Spec == Init /\ [][Next]_vars

\* the rows of df that can be stored: a valid timestamp and a non-null id
ValidRows(df) == {r \in RowsOf(df) : r.record_time # BadTime /\ r.id # NULL}

C23_EmptyLoadNoOp ==
    [][(ret'.op \in {"insert_service_logs", "insert_error_logs"}
           /\ ValidRows(ret'.df) = {})
          => /\ ret'.outcome = "returned"
             /\ service_logs' = service_logs
             /\ error_logs' = error_logs]_vars

\* C23 witness: a batch of two rows, all dropped by cleaning, was loaded into an
\* error table that held a batch, and the batch is still there
C23_Witness ==
    /\ ret.op = "insert_error_logs"
    /\ ret.outcome = "returned"
    /\ Len(ret.df) = 2
    /\ ValidRows(ret.df) = {}
    /\ error_logs # {}

\* C24: a load that raises leaves its table as it was before the call: the
\* previously loaded batch is still there, the table is neither empty nor partly
\* filled.
C24_AllOrNothing ==
    [][(ret'.op \in {"insert_service_logs", "insert_error_logs"}
           /\ ret'.outcome = "raised")
          => /\ service_logs' = service_logs
             /\ error_logs' = error_logs]_vars

(***************************************************************************)
(* Specification SpecDegradation: detect_degrading_services over the       *)
(* stores a completed load can leave (bounded).                            *)
(***************************************************************************)
MaxRows == 4

MaxTime == 2

Windows == {1, 2}

Thresholds == {R(20)}

\* <<error_rate, response_time_avg, response_time_p95, response_time_p99>> of the
\* rows a service may have; svc_b, the second service, has the smaller choice
DegradationProfiles(name) ==
    {<<R(10), R(10), R(10), R(10)>>,    \* the reference level
     <<R(13), R(10), R(10), R(10)>>,    \* error rate 30% above it
     <<R(10), R(16), R(10), R(25)>>}    \* response time +60%, p99 +150%
    \cup
    (IF name = "svc_a"
     THEN {<<R(11), R(10), R(10), R(10)>>,  \* error rate 10% above the reference
           <<NaN,   R(25), NaN,   NaN>>}    \* error rate missing, response time +150%
     ELSE {})

\* k-element-or-smaller subsets of S
RECURSIVE SubsetsUpTo(_, _)
SubsetsUpTo(S, k) ==
    IF k = 0 THEN {{}}
    ELSE LET P == SubsetsUpTo(S, k - 1)
         IN  P \cup {T \cup {x} : T \in P, x \in S}

DegradationRows ==
    UNION {{ServiceRow(ToString(<<n, t, p>>), n, t, R(100), R(1),
                       p[1], p[2], p[3], p[4], R(1), R(1)) :
                t \in 0..MaxTime, p \in DegradationProfiles(n)} : n \in Services}

InitDegradation ==
    /\ service_logs \in SubsetsUpTo(DegradationRows, MaxRows)
    /\ error_logs = {}
    /\ ret = [op |-> "init"]

DetectDegrading ==
    \E W \in Windows, th \in Thresholds : DetectDegradingServices(W, th)

NextDegradation == DetectDegrading

SpecDegradation == InitDegradation /\ [][NextDegradation]_vars

ReturnedNames(list) == {list[i].service_name : i \in 1..Len(list)}

\* the four percent-changes of a service between two sets of rows, each taken
\* between the means of the metric over the baseline rows and over the recent rows
\* (a percentile change counts as 0 when the percentile is missing on either side)
FourChanges(name, recent, baseline) ==
    LET rr == RowsFor(recent, name)
        bb == RowsFor(baseline, name)
    IN  <<PercentChange(SqlAvg(bb, "error_rate"), SqlAvg(rr, "error_rate")),
          PercentChange(SqlAvg(bb, "response_time_avg"), SqlAvg(rr, "response_time_avg")),
          OptionalChange(SqlAvg(bb, "response_time_p95"), SqlAvg(rr, "response_time_p95")),
          OptionalChange(SqlAvg(bb, "response_time_p99"), SqlAvg(rr, "response_time_p99"))>>

GreatestChange(e) ==
    LET cs == {c \in {e.error_rate_change_percent, e.response_time_change_percent,
                      e.response_time_p95_change_percent,
                      e.response_time_p99_change_percent} : NotNa(c)}
    IN  CHOOSE c \in cs : \A o \in cs : RLe(o, c)

PlaceOf(name) == CHOOSE k \in 1..Len(ret.order) : ret.order[k] = name

MaxOperand == 15

Operands == {NaN} \cup {R(n) : n \in (0 - MaxOperand)..MaxOperand}

InitPercentChange ==
    /\ service_logs = {}
    /\ error_logs = {}
    /\ ret = [op |-> "init"]

CalculatePercentChange ==
    \E b \in Operands, c \in Operands :
        /\ ret' = [op |-> "_calculate_percent_change", baseline |-> b,
                   current |-> c, value |-> PercentChange(b, c)]
        /\ UNCHANGED <<service_logs, error_logs>>

NextPercentChange == CalculatePercentChange

SpecPercentChange == InitPercentChange /\ [][NextPercentChange]_vars

\* C4: _calculate_percent_change(baseline, current) is (current - baseline) /
\* baseline * 100 when baseline is not 0; when baseline is 0 it is 100 if
\* current > 0 and 0 otherwise; no input makes it divide by zero.
C4_PercentChange ==
    ret.op = "_calculate_percent_change" =>
        LET b == ret.baseline
            c == ret.current
            v == ret.value
        IN  IF NotNa(b) /\ b[1] = 0
            THEN v = (IF NotNa(c) /\ c[1] > 0 THEN R(100) ELSE R(0))
            ELSE IF IsNaN(b) \/ IsNaN(c)
            THEN IsNaN(v)
            ELSE /\ NotNa(v)
                 \* v = (c - b) / b * 100, cross-multiplied
                 /\ v[1] * b[1] * c[2] = 100 * (c[1] * b[2] - b[1] * c[2]) * v[2]

\* C4 witness: (0, 5) gave 100
C4_Witness ==
    /\ ret.op = "_calculate_percent_change"
    /\ ret.baseline = R(0)
    /\ ret.current = R(5)
    /\ ret.value = R(100)

(***************************************************************************)
(* Specification SpecSli: get_current_sli and get_slo_violations.          *)
(***************************************************************************)
\* <<error_rate, response_time_avg, target_error_slo_perc, total_count>>; the
\* response-time target is 2
SliProfiles ==
    {<<er, rt, te, R(100)>> :
        er \in {NaN, R(0), R(2)}, rt \in {R(1), R(3)}, te \in {NaN, R(1)}}

SliRows ==
    {ServiceRow(ToString(<<n, p>>), n, 0, p[4], R(1), p[1], p[2], NaN, NaN, p[3], R(2)) :
        n \in Services, p \in SliProfiles}

SliFilters == {NULL, "svc_a", "svc_x"}

InitSli ==
    /\ service_logs \in SubsetsUpTo(SliRows, MaxRows)
    /\ error_logs = {}
    /\ ret = [op |-> "init"]

CurrentSli == \E f \in SliFilters : GetCurrentSli(f)

NextSli == CurrentSli \/ GetSloViolations

SpecSli == InitSli /\ [][NextSli]_vars

\* C6: in every row of get_current_sli, error_slo_met iff mean error rate <= error
\* target, response_slo_met iff mean response time <= response target, and
\* overall_slo_met = error_slo_met AND response_slo_met.
C6_SliFlags ==
    ret.op = "get_current_sli" =>
        \A i \in 1..Len(ret.value) :
            LET e == ret.value[i]
                rows == {r \in service_logs : r.service_name = e.service_name}
            IN  /\ e.error_slo_met <=>
                      RLe(SqlAvg(rows, "error_rate"), SqlMax(rows, "target_error_slo_perc"))
                /\ e.response_slo_met <=>
                      RLe(SqlAvg(rows, "response_time_avg"),
                          SqlMax(rows, "target_response_slo_sec"))
                /\ e.overall_slo_met <=> (e.error_slo_met /\ e.response_slo_met)

\* C6 witness: a row compliant on error but not on response, overall not met
C6_Witness ==
    /\ ret.op = "get_current_sli"
    /\ \E i \in 1..Len(ret.value) :
          /\ ret.value[i].error_slo_met
          /\ ~ret.value[i].response_slo_met
          /\ ~ret.value[i].overall_slo_met

SeqRange(s) == {s[i] : i \in 1..Len(s)}

\* C9: get_slo_violations returns exactly the services that are not compliant on
\* both dimensions, each once, and each entry's violations list is non-empty and
\* holds one reason per breached dimension: an error-rate reason iff the error
\* SLO is missed, a response-time reason iff the response SLO is missed.
C9_Violations ==
    ret.op = "get_slo_violations" =>
        LET ErrMet(n) == RLe(SqlAvg(RowsFor(service_logs, n), "error_rate"),
                             SqlMax(RowsFor(service_logs, n), "target_error_slo_perc"))
            RespMet(n) == RLe(SqlAvg(RowsFor(service_logs, n), "response_time_avg"),
                              SqlMax(RowsFor(service_logs, n), "target_response_slo_sec"))
        IN  /\ ReturnedNames(ret.value) =
                  {n \in NamesOf(service_logs) : ~(ErrMet(n) /\ RespMet(n))}
            /\ Cardinality(ReturnedNames(ret.value)) = Len(ret.value)
            /\ \A i \in 1..Len(ret.value) :
                  LET e == ret.value[i]
                  IN  /\ e.violations # <<>>
                      /\ Len(e.violations) = Cardinality(SeqRange(e.violations))
                      /\ SeqRange(e.violations) \subseteq {"error_rate", "response_time"}
                      /\ "error_rate" \in SeqRange(e.violations) <=> ~ErrMet(e.service_name)
                      /\ "response_time" \in SeqRange(e.violations)
                             <=> ~RespMet(e.service_name)

\* C9 witness: one service returned with a single reason next to a compliant
\* service that is not returned
C9_Witness ==
    /\ ret.op = "get_slo_violations"
    /\ Len(ret.value) = 1
    /\ ret.value[1].violations = <<"response_time">>
    /\ Cardinality(NamesOf(service_logs)) = 2

(***************************************************************************)
(* Specification SpecBudget: calculate_error_budget and                    *)
(* calculate_burn_rate.                                                    *)
(***************************************************************************)
\* <<total_count, error_count, target_error_slo_perc>>
BudgetProfiles(name) ==
    {<<R(100), R(0), R(1)>>}
    \cup
    (IF name = "svc_a"
     THEN {<<R(100), R(1), R(1)>>,
           <<R(100), R(3), R(1)>>,
           <<R(100), R(10), R(1)>>,
           <<R(10000), R(150), R(1)>>,
           <<R(100), R(1), R(0)>>,      \* a target of 0
           <<R(0), R(0), NaN>>}         \* no requests, no target
     ELSE {})

BudgetTimes == {0, 60, 120}

BudgetNows == {120, 150}

BudgetHours == {1}

BurnMinutes == {30}

BudgetRows ==
    UNION {{ServiceRow(ToString(<<n, t, p>>), n, t, p[1], p[2], R(0), R(1), NaN, NaN,
                       p[3], R(1)) :
                t \in BudgetTimes, p \in BudgetProfiles(n)} : n \in Services}

InitBudget ==
    /\ service_logs \in SubsetsUpTo(BudgetRows, MaxRows)
    /\ error_logs = {}
    /\ ret = [op |-> "init"]

ErrorBudget ==
    \E n \in Services, h \in BudgetHours, now \in BudgetNows :
        CalculateErrorBudget(n, h, now)

BurnRate ==
    \E n \in Services, w \in BurnMinutes, now \in BudgetNows :
        CalculateBurnRate(n, w, now)

NextBudget == ErrorBudget \/ BurnRate

SpecBudget == InitBudget /\ [][NextBudget]_vars

HasError(v) == "error" \in DOMAIN v

\* the sum of an integer column over rows, 0 for the rows that have no value
PlainSum(rows, col) == SetSum(Column({r \in rows : NotNa(r[col])}, col))

\* C7: on a non-empty window calculate_error_budget returns error_budget =
\* (target/100) * total requests, errors_consumed = total errors, budget_remaining
\* = error_budget - errors_consumed, budget_consumed_percent = consumed/budget*100
\* (0 when the budget is 0), and status healthy iff budget_remaining > 0.
C7_ErrorBudget ==
    (ret.op = "calculate_error_budget" /\ ~HasError(ret.value)) =>
        LET v == ret.value
            win == {r \in service_logs :
                       /\ r.service_name = v.service_name
                       /\ ret.now - 60 * ret.time_window_hours <= r.record_time
                       /\ r.record_time <= ret.now}
            requests == PlainSum(win, "total_count")
            errors == PlainSum(win, "error_count")
            target == v.error_slo_target_percent
            budget == v.error_budget
        IN  /\ win # {}
            /\ \E r \in win : r.target_error_slo_perc = target
            /\ Same(budget, RMul(target, RDiv(requests, R(100))))
            /\ Same(v.errors_consumed, errors)
            /\ Same(v.budget_remaining, RSub(budget, errors))
            /\ IF NotNa(budget) /\ budget[1] # 0
               THEN Same(v.budget_consumed_percent, RDiv(RMul(errors, R(100)), budget))
               ELSE Same(v.budget_consumed_percent, R(0))
            /\ v.status \in {"healthy", "budget_exceeded"}
            /\ v.status = "healthy" <=> RGt(v.budget_remaining, R(0))

\* C7 witness: target 1%, 10000 requests, 150 errors: budget 100, remaining -50,
\* budget_exceeded
C7_Witness ==
    /\ ret.op = "calculate_error_budget"
    /\ ~HasError(ret.value)
    /\ ret.value.error_slo_target_percent = R(1)
    /\ ret.value.total_requests = R(10000)
    /\ ret.value.errors_consumed = R(150)
    /\ ret.value.error_budget = R(100)
    /\ ret.value.budget_remaining = R(0 - 50)
    /\ ret.value.budget_consumed_percent = R(150)
    /\ ret.value.status = "budget_exceeded"

\* C8: calculate_burn_rate computes actual error rate = total errors / total
\* requests * 100 (0 without requests), burn rate = actual error rate / target (0
\* when the target is 0 or missing), and severity healthy for a rate < 1, warning
\* for 1 <= rate < 2, critical for 2 <= rate < 10, emergency for rate >= 10.
C8_BurnRate ==
    (ret.op = "calculate_burn_rate" /\ ~HasError(ret.value)) =>
        LET v == ret.value
            win == {r \in service_logs :
                       /\ r.service_name = v.service_name
                       /\ ret.now - ret.time_window_minutes <= r.record_time
                       /\ r.record_time <= ret.now}
            requests == PlainSum(win, "total_count")
            errors == PlainSum(win, "error_count")
            target == v.error_slo_target
            rate == v.burn_rate
        IN  /\ win # {}
            /\ \E r \in win : r.target_error_slo_perc = target
            /\ IF requests[1] = 0
               THEN Same(v.actual_error_rate, R(0))
               ELSE Same(v.actual_error_rate, RDiv(RMul(errors, R(100)), requests))
            /\ IF IsNaN(target) \/ target[1] = 0
               THEN Same(rate, R(0))
               ELSE Same(rate, RDiv(v.actual_error_rate, target))
            /\ NotNa(rate)
            /\ v.severity = "healthy" <=> rate[1] < rate[2]
            /\ v.severity = "warning" <=> (rate[2] <= rate[1] /\ rate[1] < 2 * rate[2])
            /\ v.severity = "critical" <=> (2 * rate[2] <= rate[1] /\ rate[1] < 10 * rate[2])
            /\ v.severity = "emergency" <=> 10 * rate[2] <= rate[1]

\* C8 witness: actual error rate 3%, target 1%: burn rate 3, critical
C8_Witness ==
    /\ ret.op = "calculate_burn_rate"
    /\ ~HasError(ret.value)
    /\ ret.value.actual_error_rate = R(3)
    /\ ret.value.error_slo_target = R(1)
    /\ ret.value.burn_rate = R(3)
    /\ ret.value.severity = "critical"

(***************************************************************************)
(* Specification SpecPredict: predict_issues_today.                        *)
(***************************************************************************)
MaxTrendRows == 6

TrendTimes == {0, 1, 2}

\* <<error_rate, response_time_avg>> of the rows a service may have at time t;
\* the targets are 1% and 10 s
TrendProfiles(name, t) ==
    IF name = "svc_a"
    THEN (IF t = 0 THEN {<<R(0), R(1)>>}
          ELSE IF t = 1 THEN {<<R(0), R(1)>>, <<NaN, R(1)>>}
          ELSE {<<R(0), R(1)>>, <<R(1), R(1)>>, <<R(0), R(8)>>})
    ELSE IF name = "svc_b"
    THEN (IF t = 0 THEN {<<R(0), R(1)>>} ELSE {<<R(0), R(1)>>, <<R(20), R(1)>>})
    ELSE {}

TrendRows ==
    UNION {{ServiceRow(ToString(<<n, t, p>>), n, t, R(100), R(1), p[1], p[2], NaN, NaN,
                       R(1), R(10)) : p \in TrendProfiles(n, t)} :
             n \in Services, t \in TrendTimes}

InitPredict ==
    /\ service_logs \in SubsetsUpTo(TrendRows, MaxTrendRows)
    /\ error_logs = {}
    /\ ret = [op |-> "init"]

NextPredict == PredictIssuesToday

SpecPredict == InitPredict /\ [][NextPredict]_vars

\* C10: predict_issues_today returns only predictions of risk level high or
\* critical, at most one per known service, in non-increasing risk score.
C10_Predictions ==
    (ret.op = "predict_issues_today" /\ ret.outcome = "returned") =>
        LET v == ret.value
        IN  /\ \A i \in 1..Len(v) : v[i].risk_level \in {"high", "critical"}
            /\ \A i \in 1..Len(v) : v[i].service_name \in NamesOf(service_logs)
            /\ \A i, j \in 1..Len(v) : v[i].service_name = v[j].service_name => i = j
            /\ \A i, j \in 1..Len(v) : i < j => v[i].risk_score >= v[j].risk_score

\* C10 witness: svc_a (analysed first) is predicted with a lower score than
\* svc_b, which is returned first
C10_Witness ==
    /\ ret.op = "predict_issues_today"
    /\ ret.outcome = "returned"
    /\ Len(ret.value) = 2
    /\ ret.value[1].service_name = "svc_b"
    /\ ret.value[2].service_name = "svc_a"
    /\ ret.value[1].risk_score > ret.value[2].risk_score
    /\ ret.services = <<"svc_a", "svc_b">>

(***************************************************************************)
(* Specification SpecTrend: _analyze_service_trend and predict_issues_today *)
(* on a store that may hold a row without service name.                    *)
(***************************************************************************)
TrendNames == <<"svc_a", "svc_b", NULL>>

\* the record times of the rows of the i-th name
TrendSlots(i) == {3 * (i - 1), 3 * (i - 1) + 1, 3 * (i - 1) + 2}

\* <<error_rate, response_time_avg>> of the rows the i-th name may have in its
\* k-th slot; the targets are 1% and 10 s
ScoreProfiles(i, k) ==
    IF i = 1
    THEN (IF k = 0 THEN {<<R(0), R(1)>>}
          ELSE IF k = 1 THEN {<<R(0), R(1)>>, <<NaN, R(1)>>}
          ELSE {<<R(0), R(1)>>, <<Rat(4, 5), R(1)>>})
    ELSE IF i = 2
    THEN (IF k = 0 THEN {<<R(0), R(1)>>}
          ELSE IF k = 1 THEN {<<R(0), R(1)>>, <<R(20), R(1)>>}
          ELSE {<<R(0), R(8)>>, <<R(20), R(1)>>})
    ELSE (IF k = 2 THEN {<<R(2), R(12)>>} ELSE {})

ScoreRows ==
    UNION {UNION {{ServiceRow(ToString(<<i, t, p>>), TrendNames[i], t, R(100), R(1),
                              p[1], p[2], NaN, NaN, R(1), R(10)) :
                      p \in ScoreProfiles(i, t % 3)} : t \in TrendSlots(i)} :
             i \in 1..Len(TrendNames)}

InitTrend ==
    /\ service_logs \in SubsetsUpTo(ScoreRows, MaxTrendRows)
    /\ error_logs = {}
    /\ ret = [op |-> "init"]

AnalyzeTrend == \E n \in {"svc_a", "svc_b", "svc_x", NULL} : AnalyzeTrendCall(n)

NextTrend == AnalyzeTrend \/ PredictIssuesToday

SpecTrend == InitTrend /\ [][NextTrend]_vars

\* the number of records of a service name
RecordCount(name) == Cardinality({r \in service_logs : r.service_name = name})

\* C11: a service with fewer than 3 records never appears in the result of
\* predict_issues_today.
C11_FewRecords ==
    (ret.op = "predict_issues_today" /\ ret.outcome = "returned") =>
        \A i \in 1..Len(ret.value) : RecordCount(ret.value[i].service_name) >= 3

\* the weight of the factors in the set F
FactorWeights(F) ==
    (IF "error_rate_trend" \in F THEN 30 ELSE 0)
    + (IF "response_time_trend" \in F THEN 20 ELSE 0)
    + (IF "error_rate_near_target" \in F THEN 25 ELSE 0)
    + (IF "response_time_near_target" \in F THEN 25 ELSE 0)
    + (IF "error_rate_volatility" \in F THEN 15 ELSE 0)
    + (IF "error_rate_violation" \in F THEN 40 ELSE 0)
    + (IF "response_time_violation" \in F THEN 40 ELSE 0)

\* the factors whose condition holds on the sorted frame df; with_ties adds the
\* slope factors whose exact slope is the bound itself
FactorsOn(df, with_ties) ==
    LET er == [i \in 1..Len(df) |-> df[i].error_rate]
        rt == [i \in 1..Len(df) |-> df[i].response_time_avg]
        latest == df[Len(df)]
        Holds(x, bound) == RGt(x, bound) \/ (with_ties /\ REq(x, bound))
    IN  {f \in {"error_rate_trend", "response_time_trend", "error_rate_near_target",
                "response_time_near_target", "error_rate_volatility",
                "error_rate_violation", "response_time_violation"} :
           \/ f = "error_rate_trend" /\ Holds(LinearTrend(er), Rat(1, 10))
           \/ f = "response_time_trend" /\ Holds(LinearTrend(rt), Rat(1, 1000))
           \/ f = "error_rate_near_target"
                /\ RGt(RMul(latest.error_rate, R(10)), RMul(latest.target_error_slo_perc, R(7)))
           \/ f = "response_time_near_target"
                /\ RGt(RMul(latest.response_time_avg, R(10)),
                       RMul(latest.target_response_slo_sec, R(7)))
           \/ f = "error_rate_volatility" /\ RGt(SampleVariance(er), R(25))
           \/ f = "error_rate_violation"
                /\ RGt(latest.error_rate, latest.target_error_slo_perc)
           \/ f = "response_time_violation"
                /\ RGt(latest.response_time_avg, latest.target_response_slo_sec)}

MetricsProfiles(name) ==
    IF name = "svc_a"
    THEN {<<R(0), R(1), NaN, R(1)>>,
          <<R(2), R(1), R(3), R(1)>>,
          <<R(0), R(9), R(5), R(1)>>,
          <<NaN, R(9), NaN, R(1)>>,
          <<R(0), R(1), NaN, NaN>>}
    ELSE IF name = "svc_b"
    THEN {<<R(0), R(1), NaN, R(1)>>,
          <<R(0), R(12), R(4), R(1)>>,
          <<R(0), R(6), NaN, R(1)>>}
    ELSE {<<R(0), Rat(9, 2), NaN, R(1)>>}

MetricsTimes(name) == IF name = NULL THEN {0} ELSE {0, 1}

MetricsRows ==
    UNION {{ServiceRow(ToString(<<n, t, p>>), n, t, R(100), R(1), p[1], p[2], NaN, p[3],
                       p[4], R(10)) : t \in MetricsTimes(n), p \in MetricsProfiles(n)} :
             n \in Services \cup {NULL}}

InitMetrics ==
    /\ service_logs \in SubsetsUpTo(MetricsRows, MaxRows)
    /\ error_logs = {}
    /\ ret = [op |-> "init"]

Limits == {2, 10}

SlowestServices == \E limit \in Limits : GetSlowestServices(limit)

NextMetrics == GetServiceHealthOverview \/ SlowestServices

SpecMetrics == InitMetrics /\ [][NextMetrics]_vars

\* the mean of a column over the rows of a service, and the greatest target
MeanOf(name, col) == SqlAvg(RowsFor(service_logs, name), col)

TargetOf(name, col) == SqlMax(RowsFor(service_logs, name), col)

WithinTargets(name) ==
    /\ RLe(MeanOf(name, "error_rate"), TargetOf(name, "target_error_slo_perc"))
    /\ RLe(MeanOf(name, "response_time_avg"), TargetOf(name, "target_response_slo_sec"))

Breached(name) ==
    \/ RGt(MeanOf(name, "error_rate"), TargetOf(name, "target_error_slo_perc"))
    \/ RGt(MeanOf(name, "response_time_avg"), TargetOf(name, "target_response_slo_sec"))

NearTargets(name) ==
    \/ RGt(RMul(MeanOf(name, "error_rate"), R(10)),
           RMul(TargetOf(name, "target_error_slo_perc"), R(8)))
    \/ RGt(RMul(MeanOf(name, "response_time_avg"), R(10)),
           RMul(TargetOf(name, "target_response_slo_sec"), R(8)))

\* C13: get_service_health_overview counts a service as healthy iff both means
\* are within target, a non-healthy service as degraded only when a metric is
\* above 80% of its target and none has breached its target, and as violated
\* otherwise: a service whose metric exceeds its target is in violated_services.
C13_HealthClasses ==
    (ret.op = "get_service_health_overview" /\ ret.outcome = "returned") =>
        LET names == NamesOf(service_logs)
            healthy == {n \in names : WithinTargets(n)}
            degraded == {n \in names \ healthy : NearTargets(n) /\ ~Breached(n)}
            violated == (names \ healthy) \ degraded
        IN  /\ ret.value.healthy_services = Cardinality(healthy)
            /\ ret.value.degraded_services = Cardinality(degraded)
            /\ ret.value.violated_services = Cardinality(violated)

\* C27: in every result of get_service_health_overview each service (each
\* distinct service_name of the store) is counted in exactly one of the three
\* classes: the healthy count is the number of services within both targets,
\* the other two counts together are the number of the remaining services, and
\* healthy_services + degraded_services + violated_services = total_services.
C27_HealthPartition ==
    (ret.op = "get_service_health_overview" /\ ret.outcome = "returned") =>
        LET names == NamesOf(service_logs)
            healthy == {n \in names : WithinTargets(n)}
            v == ret.value
        IN  /\ v.total_services = Cardinality(names)
            /\ v.healthy_services = Cardinality(healthy)
            /\ v.degraded_services + v.violated_services = Cardinality(names \ healthy)
            /\ v.healthy_services + v.degraded_services + v.violated_services
                  = v.total_services

\* C27 witness: three services, one in each class (the violated one has no
\* error target)
C27_Witness ==
    /\ ret.op = "get_service_health_overview"
    /\ ret.outcome = "returned"
    /\ ret.value.total_services = 3
    /\ ret.value.healthy_services = 1
    /\ ret.value.degraded_services = 1
    /\ ret.value.violated_services = 1
    /\ NULL \in NamesOf(service_logs)

(***************************************************************************)
(* Specification SpecErrors: get_error_code_distribution.                  *)
(***************************************************************************)
MaxErrorRows == 3

MaxSidRows == 2

ErrorNames == {NULL, "svc_a", "svc_b", "svc_x"}

\* the service rows: svc_a has sid 1 (at two times), svc_b sid 2 or none
SidRows ==
    {WithSid(ServiceRow(ToString(<<n[1], n[2], t>>), n[1], t, R(100), R(1), R(1), R(1),
                        NaN, NaN, R(1), R(10)), n[2]) :
        n \in {<<"svc_a", R(1)>>, <<"svc_b", R(2)>>, <<"svc_b", NaN>>}, t \in {0, 2}}

StoredErrorRows ==
    {ErrorRow(ToString(<<t, tx, c, ec>>), t, R(tx), c, ec) :
        t \in {0, 2}, tx \in {1, 2}, c \in {"E1", "E2"}, ec \in {R(1), R(3)}}

InitErrors ==
    /\ service_logs \in SubsetsUpTo(SidRows, MaxSidRows)
    /\ error_logs \in SubsetsUpTo(StoredErrorRows, MaxErrorRows)
    /\ ret = [op |-> "init"]

ErrorCodes == \E n \in ErrorNames : GetErrorCodeDistribution(n, 1)

NextErrors == ErrorCodes

SpecErrors == InitErrors /\ [][NextErrors]_vars

\* the error records of the window whose transaction id is the sid of a record
\* of the named service
JoinedErrors(name) ==
    {e \in error_logs :
        /\ ret.window_start <= e.record_time
        /\ e.record_time <= ret.current_time
        /\ \E r \in service_logs : r.service_name = name /\ REq(r.sid, e.wm_transaction_id)}

\* C14: with a service name get_error_code_distribution covers exactly the
\* error records whose transaction id matches a record of that service; when the
\* service has no matching record the distribution is empty and total_errors 0.
C14_InnerJoin ==
    (/\ ret.op = "get_error_code_distribution"
     /\ ret.outcome = "returned"
     /\ ret.value.service_name # "all_services") =>
        LET joined == JoinedErrors(ret.value.service_name)
            d == ret.value.distribution
        IN  /\ {d[i].error_code : i \in 1..Len(d)} = {e.error_codes : e \in joined}
            /\ ret.value.total_errors = PlainSum(joined, "error_count")
            /\ joined = {} => (d = <<>> /\ ret.value.total_errors = R(0))

\* the ranking key of a service: its mean p99, or its mean response time when
\* it has no p99
RankingKey(name) ==
    IF NotNa(MeanOf(name, "response_time_p99")) THEN MeanOf(name, "response_time_p99")
    ELSE MeanOf(name, "response_time_avg")

RoundTripNames == {"svc_a", "", NULL}

RoundTripRows ==
    {ServiceRow(id, n, t, R(1), R(0), R(0), R(1), NaN, NaN, R(1), R(1)) :
        id \in StoreIds, n \in RoundTripNames, t \in StoreTimes}

LoadBatch == \E df \in SeqsUpTo(RoundTripRows, MaxBatch) : InsertServiceLogs(df)

NextRoundTrip == LoadBatch \/ ListServices

SpecRoundTrip == Init /\ [][NextRoundTrip]_vars

\* a batch of well-formed records: every row has an id and a valid timestamp, and
\* no id occurs twice
WellFormed(df) == df # <<>> /\ RowsOf(df) = ValidRows(df) /\ PrimaryKeyOk(df)

\* C16: get_all_services called after the load of a batch of well-formed service
\* records returns exactly the distinct non-null, non-empty service names of the
\* batch, each once, and no null entry.
C16_RoundTrip ==
    [][(/\ ret.op = "insert_service_logs"
        /\ ret.outcome = "returned"
        /\ WellFormed(ret.df)
        /\ ret'.op = "get_all_services")
       => /\ \A i, j \in 1..Len(ret'.value) : ret'.value[i] = ret'.value[j] => i = j
          /\ SeqRange(ret'.value) = NamesOf(RowsOf(ret.df)) \ {NULL, ""}]_vars

(***************************************************************************)
(* Specification SpecNoData: the analytic operations on an empty store and *)
(* on services without records.                                            *)
(***************************************************************************)
MaxNoDataRows == 2

NoDataTimes == {0, 100}

NoDataNow == 120

NoDataWindow == 30

\* svc_x never has a record
NoDataNames == {"svc_a", "svc_b", "svc_x"}

NoDataRows ==
    {WithSid(ServiceRow(ToString(<<n, t, ec>>), n, t, R(100), R(ec), R(ec), R(1),
                        NaN, NaN, R(1), R(10)), R(1)) :
        n \in Services, t \in NoDataTimes, ec \in {0, 2}}

NoDataErrorRows == {ErrorRow(ToString(<<t, c>>), t, R(1), c, R(1)) :
                        t \in NoDataTimes, c \in {"E1"}}

InitNoData ==
    /\ service_logs \in SubsetsUpTo(NoDataRows, MaxNoDataRows)
    /\ error_logs \in SUBSET NoDataErrorRows
    /\ ret = [op |-> "init"]

DetectNoData == DetectDegradingServices(NoDataWindow, R(20))

ErrorCodesNoData ==
    \E n \in NoDataNames \cup {NULL} : GetErrorCodeDistribution(n, NoDataWindow)

VolumeTrends == \E n \in NoDataNames : GetVolumeTrends(n, NoDataWindow)

ErrorBudgetNoData == \E n \in NoDataNames : CalculateErrorBudget(n, 1, NoDataNow)

BurnRateNoData == \E n \in NoDataNames : CalculateBurnRate(n, NoDataWindow, NoDataNow)

HistoricalPatterns == \E n \in NoDataNames : GetHistoricalPatterns(n)

ServiceSummary == \E n \in NoDataNames : GetServiceSummary(n, NoDataNow)

NextNoData ==
    \/ DetectNoData
    \/ PredictIssuesToday
    \/ ErrorCodesNoData
    \/ VolumeTrends
    \/ ErrorBudgetNoData
    \/ BurnRateNoData
    \/ HistoricalPatterns
    \/ ServiceSummary

SpecNoData == InitNoData /\ [][NextNoData]_vars

\* the records of service n whose record_time lies in [from, to]
RecordsIn(n, from, to) ==
    {r \in service_logs : r.service_name = n /\ from <= r.record_time /\ r.record_time <= to}

\* the call returned (it did not raise) a result that has an 'error' key
ReturnedError == ret.outcome = "returned" /\ HasError(ret.value)

\* C17: no-data conditions never raise.  On an empty store
\* detect_degrading_services and predict_issues_today return an empty list and
\* get_error_code_distribution and get_volume_trends return a result with an
\* 'error' key; for a service without records in the store or in the window
\* calculate_error_budget, calculate_burn_rate, get_volume_trends,
\* get_historical_patterns and get_service_summary return a result with an 'error'
\* field.
C17_NoData ==
    /\ (service_logs = {} /\ ret.op \in {"detect_degrading_services",
                                         "predict_issues_today"})
          => (ret.outcome = "returned" /\ ret.value = <<>>)
    /\ (service_logs = {} /\ ret.op \in {"get_error_code_distribution",
                                         "get_volume_trends"})
          => ReturnedError
    /\ (ret.op = "calculate_error_budget"
          /\ RecordsIn(ret.value.service_name,
                       ret.now - MinutesPerHour * ret.time_window_hours, ret.now) = {})
          => HasError(ret.value)
    /\ (ret.op = "calculate_burn_rate"
          /\ RecordsIn(ret.value.service_name,
                       ret.now - ret.time_window_minutes, ret.now) = {})
          => HasError(ret.value)
    /\ (ret.op = "get_volume_trends" /\ service_logs # {}
          /\ RecordsIn(ret.service_name,
                       MaxRecordTime(service_logs) - NoDataWindow,
                       MaxRecordTime(service_logs)) = {})
          => ReturnedError
    /\ (ret.op \in {"get_historical_patterns", "get_service_summary"}
          /\ RowsFor(service_logs, ret.service_name) = {})
          => ReturnedError

(***************************************************************************)
(* Specification SpecFailure: analytic operations on a store whose         *)
(* connection may fail.  fail_at numbers the conn.execute call that raises *)
(* (0: none does).                                                         *)
(***************************************************************************)
\* mutant: the exception is logged and the result is returned
Query_Swallow(result, fails) == [raised |-> FALSE, result |-> result]

\* DuckDBManager.query(sql): the DataFrame of the query, or the exception of
\* conn.execute, logged and re-raised
Query(result, fails) ==
    IF fails THEN [raised |-> TRUE] ELSE [raised |-> FALSE, result |-> result]

\* what the caller of an operation sees when the exception leaves it at its
\* n-th query
Raised(op, fail_at, n) ==
    [op |-> op, fail_at |-> fail_at, queries |-> n, outcome |-> "raised"]

\* what the caller sees when the operation returns value after n queries
Returned(op, fail_at, n, value) ==
    [op |-> op, fail_at |-> fail_at, queries |-> n, outcome |-> "returned",
     value |-> value]

\* SLOCalculator.get_current_sli(service_name): one query
CurrentSliOnStore(service_name, fail_at) ==
    /\ UNCHANGED <<service_logs, error_logs>>
    /\ \E frame \in CurrentSliFrames(service_logs, service_name) :
         LET q == Query(frame, fail_at = 1)
         IN  ret' = IF q.raised THEN Raised("get_current_sli", fail_at, 1)
                    ELSE Returned("get_current_sli", fail_at, 1, q.result)

\* SLOCalculator.calculate_error_budget(service_name, time_window_hours): one
\* query, issued by get_service_logs
ErrorBudgetOnStore(service_name, time_window_hours, now, fail_at) ==
    LET q == Query(GetServiceLogs(service_logs, service_name,
                                  now - time_window_hours * MinutesPerHour, now),
                   fail_at = 1)
    IN  /\ UNCHANGED <<service_logs, error_logs>>
        /\ IF q.raised
           THEN ret' = Raised("calculate_error_budget", fail_at, 1)
           ELSE \E value \in ErrorBudgetResults(q.result, service_name,
                                                time_window_hours, now) :
                   ret' = Returned("calculate_error_budget", fail_at, 1, value)

\* SLOCalculator.get_service_summary(service_name): the query of
\* get_current_sli, then those of calculate_error_budget and calculate_burn_rate
ServiceSummaryOnStore(service_name, now, fail_at) ==
    LET op == "get_service_summary"
        q2 == Query(GetServiceLogs(service_logs, service_name,
                                   now - DefaultBudgetHours * MinutesPerHour, now),
                    fail_at = 2)
        q3 == Query(GetServiceLogs(service_logs, service_name,
                                   now - DefaultBurnMinutes, now),
                    fail_at = 3)
    IN  /\ UNCHANGED <<service_logs, error_logs>>
        /\ \E frame \in CurrentSliFrames(service_logs, service_name) :
             LET q1 == Query(frame, fail_at = 1)
             IN  IF q1.raised THEN ret' = Raised(op, fail_at, 1)
                 ELSE IF q1.result = <<>>
                 THEN ret' = Returned(op, fail_at, 1,
                                      [error |-> "Service not found",
                                       service_name |-> service_name])
                 ELSE IF q2.raised THEN ret' = Raised(op, fail_at, 2)
                 ELSE IF q3.raised THEN ret' = Raised(op, fail_at, 3)
                 ELSE \E error_budget \in ErrorBudgetResults(q2.result, service_name,
                                                DefaultBudgetHours, now),
                         burn_rate \in BurnRateResults(q3.result, service_name,
                                                DefaultBurnMinutes, now) :
                        ret' = Returned(op, fail_at, 3,
                                        ServiceSummaryOf(service_name, q1.result[1],
                                                         error_budget, burn_rate))

\* TrendAnalyzer.get_historical_patterns(service_name): one query, issued by
\* get_service_logs
HistoricalPatternsOnStore(service_name, fail_at) ==
    LET op == "get_historical_patterns"
        q == Query(ServiceLogsOf(service_logs, service_name), fail_at = 1)
    IN  /\ UNCHANGED <<service_logs, error_logs>>
        /\ ret' = IF q.raised THEN Raised(op, fail_at, 1)
                  ELSE IF q.result = {}
                  THEN Returned(op, fail_at, 1,
                                [error |-> "No data found for service",
                                 service_name |-> service_name])
                  ELSE Returned(op, fail_at, 1,
                                HistoricalPatternsOf(service_name, q.result))

\* the conn.execute call that fails: none, or one of the first three
FailAt == 0..3

InitFailure ==
    /\ service_logs \in SubsetsUpTo(NoDataRows, MaxNoDataRows)
    /\ error_logs = {}
    /\ ret = [op |-> "init"]

CurrentSliFailure ==
    \E n \in NoDataNames, k \in FailAt : CurrentSliOnStore(n, k)

ErrorBudgetFailure ==
    \E n \in NoDataNames, k \in FailAt : ErrorBudgetOnStore(n, 1, NoDataNow, k)

ServiceSummaryFailure ==
    \E n \in NoDataNames, k \in FailAt : ServiceSummaryOnStore(n, NoDataNow, k)

HistoricalPatternsFailure ==
    \E n \in NoDataNames, k \in FailAt : HistoricalPatternsOnStore(n, k)

NextFailure ==
    \/ CurrentSliFailure
    \/ ErrorBudgetFailure
    \/ ServiceSummaryFailure
    \/ HistoricalPatternsFailure

SpecFailure == InitFailure /\ [][NextFailure]_vars

\* C18: when a query of an analytic operation fails in the store, the operation
\* raises: it stops at the failed query (no retry, no later query) and hands no
\* result to its caller.
C18_Propagated ==
    (ret.op # "init" /\ ret.fail_at \in 1..ret.queries) =>
        /\ ret.outcome = "raised"
        /\ ret.queries = ret.fail_at
        /\ ~("value" \in DOMAIN ret)

\* C18 witness: get_service_summary raised at its second query, the one of
\* calculate_error_budget, after get_current_sli had found the service
C18_Witness ==
    /\ ret.op = "get_service_summary"
    /\ ret.outcome = "raised"
    /\ ret.fail_at = 2
    /\ ret.queries = 2
    /\ RowsFor(service_logs, "svc_a") # {}

(***************************************************************************)
(* Specification SpecReload: a load of service records, statement by       *)
(* statement, next to a reader that shares the DuckDBManager.  ret holds   *)
(* the call frame of each of the two threads: ret.loader is the position   *)
(* of insert_service_logs with its cleaned batch and the rows the table    *)
(* held before, ret.reader the last result a reader received together with *)
(* the loader frame at the time of the read.                               *)
(***************************************************************************)
IdleLoader == [pc |-> "idle"]

\* mutant: the DELETE is not visible to other statements before the INSERT
DeleteStatement_Deferred(df) ==
    LET clean == CleanDf(df)
    IN  /\ ret.loader.pc = "idle"
        /\ UNCHANGED error_logs
        /\ IF df = <<>> \/ clean = <<>>
           THEN /\ UNCHANGED service_logs
                /\ ret' = [ret EXCEPT !.op = "insert_service_logs"]
           ELSE /\ service_logs' = service_logs
                /\ ret' = [ret EXCEPT !.op = "insert_service_logs",
                                      !.loader = [pc |-> "deleted", df |-> clean,
                                                  previous |-> service_logs]]

\* insert_service_logs(df) up to and including
\* conn.execute("DELETE FROM service_logs"); the call returns before it when no
\* valid row is left
DeleteStatement(df) ==
    LET clean == CleanDf(df)
    IN  /\ ret.loader.pc = "idle"
        /\ UNCHANGED error_logs
        /\ IF df = <<>> \/ clean = <<>>
           THEN /\ UNCHANGED service_logs
                /\ ret' = [ret EXCEPT !.op = "insert_service_logs"]
           ELSE /\ service_logs' = {}
                /\ ret' = [ret EXCEPT !.op = "insert_service_logs",
                                      !.loader = [pc |-> "deleted", df |-> clean,
                                                  previous |-> service_logs]]

\* the rest of insert_service_logs: register, INSERT INTO service_logs SELECT *
\* FROM temp_service_df, unregister; a repeated id makes the INSERT fail
InsertStatement ==
    /\ ret.loader.pc = "deleted"
    /\ UNCHANGED error_logs
    /\ service_logs' = IF PrimaryKeyOk(ret.loader.df) THEN RowsOf(ret.loader.df)
                       ELSE service_logs
    /\ ret' = [ret EXCEPT !.op = "insert_service_logs", !.loader = IdleLoader]

\* a reader thread calls get_time_range() on the shared DuckDBManager
ReadTimeRange ==
    /\ UNCHANGED <<service_logs, error_logs>>
    /\ ret' = [ret EXCEPT !.op = "get_time_range",
                          !.reader = [op |-> "get_time_range",
                                      max_time |-> MaxRecordTime(service_logs),
                                      rows |-> Cardinality(service_logs),
                                      loader |-> ret.loader]]

\* a reader thread calls get_all_services() on the shared DuckDBManager
ReadAllServices ==
    /\ UNCHANGED <<service_logs, error_logs>>
    /\ ret' = [ret EXCEPT !.op = "get_all_services",
                          !.reader = [op |-> "get_all_services",
                                      value |-> GetAllServices(service_logs),
                                      rows |-> Cardinality(service_logs),
                                      loader |-> ret.loader]]

InitReload ==
    /\ service_logs = {}
    /\ error_logs = {}
    /\ ret = [op |-> "init", loader |-> IdleLoader,
              reader |-> [op |-> "none", loader |-> IdleLoader]]

ReloadDelete == \E df \in SeqsUpTo(StoreServiceRows, MaxBatch) : DeleteStatement(df)

NextReload ==
    \/ ReloadDelete
    \/ InsertStatement
    \/ ReadTimeRange
    \/ ReadAllServices

SpecReload == InitReload /\ [][NextReload]_vars

\* C19: a read issued while a load stands between its DELETE and its INSERT
\* observes the empty table (no service, no time range), whatever the table held
\* before the load and whatever the batch being loaded holds.
C19_ReadDuringReload ==
    ret.reader.loader.pc = "deleted" =>
        /\ ret.reader.rows = 0
        /\ ret.reader.op = "get_all_services" => ret.reader.value = <<>>
        /\ ret.reader.op = "get_time_range" => ret.reader.max_time = NaT

\* C19 witness: get_all_services returned no service between the two statements
\* of a load of a non-empty batch over a non-empty table
C19_Witness ==
    /\ ret.reader.op = "get_all_services"
    /\ ret.reader.value = <<>>
    /\ ret.reader.loader.pc = "deleted"
    /\ ret.reader.loader.previous # {}
    /\ PrimaryKeyOk(ret.reader.loader.df)
    /\ RowsOf(ret.reader.loader.df) # {}

(***************************************************************************)
(* Specification SpecFresh: analytic operations between reloads of the     *)
(* service records.                                                        *)
(***************************************************************************)
FreshTimes == {0, 1, 3}

FreshNows == {3, 100}

FreshRows ==
    {ServiceRow(ToString(<<n, t>>), n, t, R(100), R(er), R(er), R(1), NaN, NaN,
                R(1), R(10)) :
        n \in Services, t \in FreshTimes, er \in {0, 2}}

Reload == \E df \in SeqsUpTo(FreshRows, MaxBatch) : InsertServiceLogs(df)

CurrentSliFresh == \E n \in Services \cup {NULL} : GetCurrentSli(n)

DetectFresh == DetectDegradingServices(1, R(20))

ErrorBudgetFresh == \E n \in Services, now \in FreshNows : CalculateErrorBudget(n, 1, now)

NextFresh ==
    \/ Reload
    \/ CurrentSliFresh
    \/ DetectFresh
    \/ ErrorBudgetFresh
    \/ PredictIssuesToday
    \/ GetServiceHealthOverview

SpecFresh == Init /\ [][NextFresh]_vars

AnalyticOps ==
    {"get_current_sli", "detect_degrading_services", "calculate_error_budget",
     "predict_issues_today", "get_service_health_overview"}

\* the result held in ret is one the operation gives on the tables as they are
\* now, for the arguments (and the clock reading) of the call
FreshResult ==
    /\ ret.op = "get_current_sli"
          => ret.value \in CurrentSliFrames(service_logs, ret.service_name)
    /\ (ret.op = "detect_degrading_services" /\ ret.outcome = "returned")
          => /\ ret.recent \cup ret.baseline \subseteq service_logs
             /\ ReturnedNames(ret.value) \subseteq NamesOf(service_logs)
             /\ service_logs # {} =>
                   /\ ret.recent = RecentRows(service_logs, ret.W)
                   /\ ret.baseline = BaselineRows(service_logs, ret.W)
    /\ ret.op = "calculate_error_budget"
          => ret.value \in ErrorBudgetResults(service_logs, ret.value.service_name,
                                              ret.time_window_hours, ret.now)
    /\ (ret.op = "predict_issues_today" /\ ret.outcome = "returned")
          => /\ ret.services = GetAllServices(service_logs)
             /\ ReturnedNames(ret.value) \subseteq NamesOf(service_logs)
    /\ (ret.op = "get_service_health_overview" /\ ret.outcome = "returned")
          => /\ ret.value.total_services = Cardinality(NamesOf(service_logs))
             /\ ret.value.healthy_services = HealthCount(service_logs, "healthy")

MaxAnomalyTime == 5

AnomalyTimes == 0..MaxAnomalyTime

Absent == <<>>

\* <<error_rate, response_time_avg>>
AnomalyProfiles ==
    {<<Rat(1, 10), R(1)>>, <<R(10), R(1)>>, <<Rat(1, 10), R(5)>>, <<NaN, R(1)>>}

AnomalyRow(n, t, p) ==
    ServiceRow(ToString(<<n, t>>), n, t, R(100), R(1), p[1], p[2], NaN, NaN, R(1), R(10))

\* the times at which the record of svc_a takes any profile; at the later times
\* it takes the first one
VariedTimes == 0..3

AnomalyTables ==
    {{AnomalyRow("svc_a", t, f[t]) : t \in {u \in AnomalyTimes : f[u] # Absent}}
        \cup {AnomalyRow("svc_b", 0, <<R(50), R(50)>>)} :
     f \in {g \in [AnomalyTimes -> AnomalyProfiles \cup {Absent}] :
               \A t \in AnomalyTimes \ VariedTimes :
                   g[t] \in {Absent, <<Rat(1, 10), R(1)>>}}}

AnomalyThresholds == {Rat(1, 2), R(1), R(2)}

InitAnomalies ==
    /\ service_logs \in AnomalyTables
    /\ error_logs = {}
    /\ ret = [op |-> "init"]

Anomalies ==
    \E n \in {"svc_a", "svc_x"}, th \in AnomalyThresholds : GetAnomalies(n, th)

NextAnomalies == Anomalies

SpecAnomalies == InitAnomalies /\ [][NextAnomalies]_vars

\* the values of column col of the records of the call, NaN left out
KnownValues(col) == SelectSeq([i \in 1..Len(ret.df) |-> ret.df[i][col]], NotNa)

\* the std of column col is defined and above 0
HasSpread(col) ==
    /\ Len(KnownValues(col)) >= 2
    /\ \E i, j \in 1..Len(KnownValues(col)) :
          ~REq(KnownValues(col)[i], KnownValues(col)[j])

\* (value - mean)^2 of a record in column col
SquaredDeviation(r, col) ==
    LET mean == RDiv(SeqSum(KnownValues(col)), R(Len(KnownValues(col))))
    IN  RMul(RSub(r[col], mean), RSub(r[col], mean))

\* threshold_std^2 * std^2 of column col
SquaredLimit(col) ==
    RMul(RMul(ret.threshold_std, ret.threshold_std),
         SampleVariance([i \in 1..Len(ret.df) |-> ret.df[i][col]]))

\* the z-score of record r in column col is strictly above threshold_std
ZAbove(r, col) ==
    HasSpread(col) /\ NotNa(r[col]) /\ RGt(SquaredDeviation(r, col), SquaredLimit(col))

\* the z-score of record r in column col is threshold_std itself
ZAtLimit(r, col) ==
    HasSpread(col) /\ NotNa(r[col]) /\ REq(SquaredDeviation(r, col), SquaredLimit(col))

\* the list holds an entry for record r
Flagged(r) == \E i \in 1..Len(ret.value) : ret.value[i].timestamp = r.record_time

\* C21: get_anomalies flags a record iff the z-score (|value - mean| / std, 0
\* when the std is 0) of its error rate or of its response time is strictly
\* above threshold_std; the anomaly_type of a flagged record is non-empty and
\* names exactly the metrics whose z-score is above the threshold; a service
\* whose values are all identical yields no anomaly.  A z-score that equals the
\* threshold may count either way.
C21_Anomalies ==
    ret.op = "get_anomalies" =>
        /\ \A i \in 1..Len(ret.df) :
              LET r == ret.df[i]
              IN  /\ (ZAbove(r, "error_rate") \/ ZAbove(r, "response_time_avg"))
                        => Flagged(r)
                  /\ Flagged(r) =>
                        \/ ZAbove(r, "error_rate") \/ ZAtLimit(r, "error_rate")
                        \/ ZAbove(r, "response_time_avg")
                        \/ ZAtLimit(r, "response_time_avg")
        /\ \A i \in 1..Len(ret.value) :
              LET e == ret.value[i]
                  r == CHOOSE x \in RowsOf(ret.df) : x.record_time = e.timestamp
                  types == {e.anomaly_type[k] : k \in 1..Len(e.anomaly_type)}
              IN  /\ e.anomaly_type # <<>>
                  /\ ZAbove(r, "error_rate") => "error_rate" \in types
                  /\ "error_rate" \in types =>
                        (ZAbove(r, "error_rate") \/ ZAtLimit(r, "error_rate"))
                  /\ ZAbove(r, "response_time_avg") => "response_time" \in types
                  /\ "response_time" \in types =>
                        (ZAbove(r, "response_time_avg")
                            \/ ZAtLimit(r, "response_time_avg"))
        /\ (~HasSpread("error_rate") /\ ~HasSpread("response_time_avg"))
              => ret.value = <<>>

(***************************************************************************)
(* Specification SpecLoadAll: successive calls of load_and_store_all.      *)
(***************************************************************************)
LoadIds == {"id1", "id2"}

LoadServiceRows ==
    {ServiceRow(id, "svc_a", t, R(1), R(0), R(0), R(1), NaN, NaN, R(1), R(1)) :
        id \in LoadIds, t \in StoreTimes}

LoadErrorRows == {ErrorRow(id, t, 1, "E500", R(1)) : id \in LoadIds, t \in StoreTimes}

\* the outcomes of parsing a file whose records are drawn from S
Files(S) ==
    {[parsed |-> FALSE]} \cup {[parsed |-> TRUE, df |-> df] : df \in SeqsUpTo(S, MaxBatch)}

LoadAll ==
    \E service_file \in Files(LoadServiceRows), error_file \in Files(LoadErrorRows) :
        LoadAndStoreAll(service_file, error_file)

NextLoadAll == LoadAll

SpecLoadAll == Init /\ [][NextLoadAll]_vars

MaxViolationRows == 4

ViolationNames == <<"svc_a", NULL>>

\* the record times of the rows of the i-th name: svc_a may report once more
\* after the rows without service name
ViolationTimes(i) == IF i = 1 THEN {0, 1, 2, 3} ELSE {0, 1, 2}

\* <<error_rate, response_time_avg, target_error_slo_perc>> of the rows a name
\* may have at time t; the response target is 10 s
ViolationProfiles(t) ==
    IF t < 2 THEN {<<R(0), R(1), R(1)>>}
    ELSE {<<R(0), R(1), R(1)>>, <<R(2), R(1), R(1)>>, <<Rat(1, 2), R(12), R(0)>>}

ViolationRows ==
    UNION {UNION {{ServiceRow(ToString(<<i, t, p>>), ViolationNames[i], t, R(100), R(1),
                              p[1], p[2], NaN, NaN, p[3], R(10)) :
                      p \in ViolationProfiles(t)} : t \in ViolationTimes(i)} :
             i \in 1..Len(ViolationNames)}

InitViolation ==
    /\ service_logs \in SubsetsUpTo(ViolationRows, MaxViolationRows)
    /\ error_logs = {}
    /\ ret = [op |-> "init"]

NextViolation == PredictIssuesToday

SpecViolation == InitViolation /\ [][NextViolation]_vars

\* the record breaches a non-negative target
ViolatesSlo(r) ==
    \/ RGe(r.target_error_slo_perc, R(0)) /\ RGt(r.error_rate, r.target_error_slo_perc)
    \/ RGe(r.target_response_slo_sec, R(0))
         /\ RGt(r.response_time_avg, r.target_response_slo_sec)

\* the records of a service name
RecordsOf(name) == {r \in service_logs : r.service_name = name}

\* the name has at least 3 records and its latest record breaches a target
CurrentlyViolating(name) ==
    /\ Cardinality(RecordsOf(name)) >= 3
    /\ \A r \in FirstRowsDesc(RecordsOf(name)) : ViolatesSlo(r)

\* C26: every service of the store with at least 3 records whose latest record
\* breaches a non-negative target is in the list predict_issues_today returns,
\* with a risk score of at least 65 and the risk level high or critical.
C26_ViolatorPredicted ==
    (ret.op = "predict_issues_today" /\ ret.outcome = "returned") =>
        \A name \in NamesOf(service_logs) :
            CurrentlyViolating(name) =>
                \E i \in 1..Len(ret.value) :
                    /\ ret.value[i].service_name = name
                    /\ ret.value[i].risk_score >= 65
                    /\ ret.value[i].risk_level \in {"high", "critical"}

(***************************************************************************)
(* Specification SpecChat: successive chats of one ClaudeClient.           *)
(***************************************************************************)
MaxChats == 2

MaxToolIterations == 2

ToolIterationLimits == 0..MaxToolIterations

Answer == <<"answer">>

\* the answers of the model
Replies ==
    {ApiFailure,
     ResponseBody("end_turn", <<TextBlock(Answer)>>),
     ResponseBody("end_turn", <<>>),
     ResponseBody("end_turn", <<TextBlock(<<>>)>>),
     ResponseBody("tool_use", <<ToolUseBlock("t1", "get_current_sli")>>),
     ResponseBody("tool_use", <<TextBlock(Answer), ToolUseBlock("t1", "get_current_sli"),
                                ToolUseBlock("t2", "no_such_tool")>>),
     ResponseBody("tool_use", <<TextBlock(Answer)>>)}

InitChat ==
    /\ service_logs = {}
    /\ error_logs = {}
    /\ ret = [op |-> "init", chats |-> 0, pc |-> "idle", outcome |-> "none",
              conversation_history |-> <<>>, sent |-> FALSE, request |-> <<>>,
              response |-> NoResponse, tool_executor |-> FALSE,
              max_tool_iterations |-> 0, iterations |-> 0, calls |-> 0, text |-> <<>>]

Chat ==
    /\ ret.chats < MaxChats
    /\ \E tool_executor \in BOOLEAN, max_tool_iterations \in ToolIterationLimits,
          reply \in Replies :
          ChatSend("question", tool_executor, max_tool_iterations, reply)

ToolRound ==
    \E executed \in [1..2 -> BOOLEAN], reply \in Replies : ChatToolRound(executed, reply)

NextChat == Chat \/ ToolRound \/ ChatReturn

SpecChat == InitChat /\ [][NextChat]_vars

\* C28: a chat whose model calls all answer ends by returning a non-empty text:
\* it makes at most 1 + max_tool_iterations model calls, a tool round is only
\* run after a response whose stop_reason is tool_use, and the returned text is
\* the fallback message when the final response has no text.
C28_ChatTerminates ==
    /\ [](ret.op = "chat" =>
            /\ ret.calls <= 1 + ret.max_tool_iterations
            /\ ret.iterations <= ret.max_tool_iterations
            /\ (ret.pc = "done" /\ ~ret.response.failed) =>
                 /\ ret.outcome = "returned"
                 /\ ret.text # <<>>
                 /\ TextFrom(ret.response.content, 1) = <<>> => ret.text = FallbackText)
    /\ [][(ret.op = "chat" /\ ret'.op = "chat" /\ ret'.chats = ret.chats
             /\ ret'.calls = ret.calls + 1)
            => ret.response.stop_reason = "tool_use"]_vars

\* the tool_use blocks of a message
ToolUsesOf(msg) ==
    IF msg.role = "assistant" THEN SelectSeq(msg.content, IsToolUse) ELSE <<>>

\* the message answers the tool_use blocks: one tool_result per tool_use id
AnswersToolUses(msg, tool_uses) ==
    /\ msg.role = "user"
    /\ ~msg.str_content
    /\ Len(msg.content) = Len(tool_uses)
    /\ \A i \in 1..Len(tool_uses) :
          /\ msg.content[i].type = "tool_result"
          /\ msg.content[i].tool_use_id = tool_uses[i].id

\* every assistant message with tool_use blocks is followed by its tool results
Paired(messages) ==
    \A i \in 1..Len(messages) :
        ToolUsesOf(messages[i]) # <<>> =>
            /\ i < Len(messages)
            /\ AnswersToolUses(messages[i + 1], ToolUsesOf(messages[i]))

\* C29: the messages of every request sent to the model are paired: each
\* assistant message with tool_use blocks is immediately followed by a user
\* message with exactly one tool_result per tool_use id, in every chat of the
\* client, also after a chat that ended with max_tool_iterations reached.
C29_ToolPairing == (ret.op = "chat" /\ ret.sent) => Paired(ret.request)

(***************************************************************************)
(* Specification SpecDispatch: FunctionExecutor.execute on any name.       *)
(***************************************************************************)
\* names the model may ask for that TOOLS does not declare ("None" is the
\* name of a tool_use block without name)
OtherNames == {"no_such_tool", "get_anomalies", "_get_top_errors", "", "None"}

RequestedNames == SeqRange(TOOLS) \cup OtherNames

ParameterSets == SUBSET {"service_name", "limit", "time_window_minutes"}

InitDispatch ==
    /\ service_logs \in SubsetsUpTo(MetricsRows, 1)
    /\ error_logs = {}
    /\ ret = [op |-> "init"]

ExecuteTool ==
    \E function_name \in RequestedNames, parameters \in ParameterSets,
       handler_raises \in BOOLEAN :
       Execute(function_name, parameters, handler_raises)

NextDispatch == ExecuteTool

SpecDispatch == InitDispatch /\ [][NextDispatch]_vars

====
